--------------------------- MODULE Spec2Model ---------------------------
(***************************************************************************)
(* A model of civiq6: the Vimba camera (camera.py, camera2.py), the        *)
(* capture session fan-out (capture.py, capture2.py,                       *)
(* src/civiq6/capture.py), the video recorder (capture.py) and the device  *)
(* registry (devices.py).                                                  *)
(*                                                                         *)
(* The module holds several specifications over one set of variables:      *)
(*   SpecRec     the VimbaVideoRecorder: a control thread calling          *)
(*               record()/pause()/stop() and the setters, interleaved      *)
(*               with the frame delivery thread calling _setArray;         *)
(*   SpecRecCfg  record() with the configured frame rate and resolution    *)
(*               and the camera of the session of the recorder;            *)
(*   SpecCam     start() and stop() of the cameras, with the FrameProducer *)
(*               and FrameConsumer threads they start and join;            *)
(*   SpecCamFair SpecCam with threads that run whenever they can;          *)
(*   SpecSdk     SpecCam with SDK calls that raise in FrameProducer.run,   *)
(*               and a session taking the frames;                          *)
(*   SpecOrder   one camera whose complete frames are told apart;          *)
(*   SpecSess    capture sessions and cameras under setCamera, with the    *)
(*               FrameConsumer thread of a camera forwarding frames;       *)
(*   SpecFan     the fan-out of one camera's frames to the sinks           *)
(*               registered on its capture session;                        *)
(*   SpecVideo   the capture session that feeds a QVideoSink;              *)
(*   SpecDev     VimbaDevices and the camera change handler of VimbaRunner;*)
(*   SpecCapture the VimbaImageCapture: captureToFile() on the main thread *)
(*               and _setArray on the delivery thread;                     *)
(*   SpecSwitch  setCameraDevice() on a camera that is started, stopped    *)
(*               and attached to a session;                                *)
(*   SpecRecAll  one recording with everything that goes on around the     *)
(*               recorder: setters, session, camera, device switch and     *)
(*               camera events;                                            *)
(*   SpecList    the list object of VimbaDevices under camera events,      *)
(*               with a caller of videoInputs() keeping what it got;       *)
(*   SpecVimba   runVimba and stopVimba of VimbaRunner with the cameras;   *)
(*   SpecVimbaFair  SpecVimba with a runVimba thread that runs whenever it *)
(*               can;                                                      *)
(*   SpecSink    the ArraySink of a session given frames of two sizes;     *)
(*   SpecFormat  cameraFormat() of cameras that are given other devices;   *)
(*   SpecExample the VideoRecorder of the PySide6 example                  *)
(*               (doc/source/examples/PySide6/videorecorder.py);           *)
(*   SpecHot     two cameras under start, stop, setCameraDevice, camera    *)
(*               events and stopVimba;                                     *)
(*   SpecStale   setCameraDevice() on a camera whose frames show the       *)
(*               device they were captured from;                           *)
(*   SpecRecFail record() with a session, camera and device that may be    *)
(*               missing or null;                                          *)
(*   SpecOwner   an image capture and a recorder given to two sessions.    *)
(* The specifications share the actions; each takes the ones it is about.  *)
(***************************************************************************)
EXTENDS Integers, Sequences, FiniteSets, TLC

VARIABLES
    \* ---- VimbaVideoRecorder (capture.py 333-531) ----
    recorderState,    \* _recorderState
    writer,           \* _writer: None, or the cv2.VideoWriter opened by record()
    released,         \* ids of the writers on which release() was called
    lastWriterId,     \* id of the writer object created last
    writerArgs,       \* fps, size and isColor given to cv2.VideoWriter last
    lock,             \* _lock (QMutex): "free", or the thread holding it
    actualLocation,   \* _actualLocation
    outputLocation,   \* _outputLocation
    cfgFrameRate,     \* _frameRate
    cfgResolution,    \* _resolution
    recSession,       \* _captureSession: a session, or None
    ctlPc,            \* position of the thread calling record/pause/stop
    dlvPc,            \* position of the frame delivery thread in _setArray
    lastCall,         \* the last record/pause/stop call and the state it found
    recSignals,       \* signals emitted by the last record/pause/stop call
    wlog,             \* the last writer.write: its target and the state then
    lastAccess,       \* the last access to _recorderState or _writer
    recError,         \* an exception was raised (AttributeError on None)
    \* ---- VimbaCaptureSession (capture.py 42-146) ----
    sessCamera,       \* _camera of each session: a camera, or None
    sessArraySink,    \* _arraySink of each session: the ArraySink, or None
    sessImageCapture, \* _imageCapture of each session
    sessRecorder,     \* _recorder of each session
    mainPc,           \* position of the main thread inside setCamera,
                      \* start() or stop()
    sessSignals,      \* signals emitted by the last call on a session
    \* ---- VimbaCamera and its FrameConsumer (camera.py 37-274) ----
    camDevice,        \* _cameraDevice of each camera
    camSession,       \* VimbaCamera._captureSession
    consumerSession,  \* FrameConsumer.captureSession
    frameQueue,       \* _frameQueue
    consumerPc,       \* position of the consumer thread in FrameConsumer.run
    consumerFrame,    \* FrameConsumer.frame
    consumerLocal,    \* the local variable session of FrameConsumer.run
    consAlive,        \* FrameConsumer.alive
    consQuit,         \* quit() was called on _consumerThread
    prodPc,           \* position of the FrameProducer thread in run
    prodQuit,         \* quit() was called on _frameProducer
    readyPending,     \* FrameProducer.ready was emitted and not yet handled
    prodRun,          \* per camera: what the last run of FrameProducer did
    lastCallback,     \* the last call of queue_frame: its frame and its steps
    devCall,          \* the setCameraDevice call: its position and arguments
    lastFormat,       \* the last cameraFormat() call: what it read and returned
    \* ---- VideoRecorder of the PySide6 example (videorecorder.py 12-91) ----
    vrState,          \* _recorderState
    vrWriter,         \* _writer: None, or the writer imageio.get_writer made
    vrClosed,         \* the writers close() was called on
    vrLock,           \* _lock: "free", or the thread that holds it
    vrCtlPc,          \* where the thread calling record/pause/stop is
    vrDlvPc,          \* where the thread calling _setFrame is
    vrAppend,         \* the last append_data: the writer it was called on
    camActive,        \* VimbaCamera._active
    runningCameras,   \* VimbaRunner._runningCameras
    lastOp,           \* per camera: the last of start() and stop() called
    lastCamCall,      \* the last start()/stop() call and what it found
    camSignals,       \* signals emitted by the last start()/stop() call
    camThreadOps,     \* thread operations of the last start()/stop() call
    switchedAway,     \* per camera: the sessions that replaced it by setCamera
    lastDelivery,     \* the last frame a consumer handled, and what it caused
    sessError,        \* an exception was raised in a consumer thread
    \* ---- ArraySink and VimbaImageCapture (capture.py 149-322) ----
    sinkArray,        \* ArraySink._array
    sinkSize,         \* ArraySink._arraySize
    icSession,        \* VimbaImageCapture._captureSession
    icImage,          \* VimbaImageCapture._image
    icCapturing,      \* VimbaImageCapture._capturing
    icId,             \* VimbaImageCapture._id
    icDlv,            \* the delivery thread inside VimbaImageCapture._setArray
    icDelivered,      \* number of the frame _setArray was called with last
    lastCapture,      \* the last captureToFile call: what it found and did
    \* ---- the capture session with a video sink (capture2.py,
    \*      src/civiq6/capture.py) ----
    vidImageCapture,  \* _imageCapture
    vidRecorder,      \* _recorder
    vidSink,          \* _videoSink
    videoFrame,       \* the QVideoFrame the video sink was given last
    protoFrame,       \* the frames the image capture and the recorder got last
    lastSetFrame,     \* the last _setFrame call: its frame and its calls
    \* ---- VimbaDevices and the camera change handler (devices.py) ----
    sdkCameras,       \* what VIMBA_INST.get_all_cameras() returns
    videoInputs,      \* VimbaDevices._videoInputs
    hpPc,             \* position of the SDK thread in cameraChangeHandler
    hpEvent,          \* the camera and the event of the last handler call
    devSignals,       \* signals of VimbaDevices since the last event
    lastDefault,      \* the last defaultVideoInput() call and its list
    inputsRef,        \* the list object VimbaDevices._videoInputs refers to
    listHeap,         \* the contents of every list object
    held,             \* the list a caller of videoInputs() got and what was in it
    runPc,            \* where runVimba is
    stopV             \* the stopVimba call: its position and what it did

recCore == <<recorderState, writer, released, lastWriterId, writerArgs, lock,
             actualLocation, ctlPc, dlvPc, lastCall, recSignals, wlog,
             lastAccess, recError>>

recCfg == <<outputLocation, cfgFrameRate, cfgResolution>>

recVars == <<recCore, recCfg, recSession>>

sessRefs == <<sessCamera, camSession, consumerSession, switchedAway>>

sessSinks == <<sessArraySink, sessImageCapture, sessRecorder, icSession>>

sinkState == <<sinkArray, sinkSize, icImage, icCapturing, icId, icDlv,
               icDelivered, lastCapture>>

pipeline == <<frameQueue, consumerPc, consumerFrame, consumerLocal>>

sessVars == <<sessRefs, sessSinks, sinkState, pipeline, mainPc, sessSignals,
              camDevice, lastDelivery, sessError>>

camThreads == <<camActive, prodPc, prodQuit, readyPending, prodRun, consAlive,
                consQuit, runningCameras>>

camCalls == <<lastOp, lastCamCall, camSignals, camThreadOps, lastCallback,
              devCall, lastFormat>>

camVars == <<camThreads, camCalls>>

vidVars == <<vidImageCapture, vidRecorder, vidSink, videoFrame, protoFrame,
             lastSetFrame>>

devVars == <<sdkCameras, videoInputs, hpPc, hpEvent, devSignals, lastDefault,
             inputsRef, listHeap, held, runPc, stopV>>

exVars == <<vrState, vrWriter, vrClosed, vrLock, vrCtlPc, vrDlvPc, vrAppend>>

vars == <<recVars, sessVars, camVars, vidVars, devVars, exVars>>

\* What no method of the recorder touches.
nonRecVars == <<sessVars, camVars, vidVars, devVars, exVars>>

None == 0

Sessions == {1, 2}

Cameras == {1, 2}

\* The frames the model lets wait in a _frameQueue.
MaxQueue == 2

\* Frames told apart: the n-th one is n pixels wide.  MaxFrames bounds how
\* many of them a camera captures or an image capture is given.
MaxFrames == 4

\* The one VimbaVideoRecorder, VimbaImageCapture and ArraySink object.
TheRecorder == 1
TheImageCapture == 1
TheArraySink == 1

(***************************************************************************)
(* VimbaCameraDevice: frameRate(), resolution(), pixelFormat()             *)
(* (devices.py 276-314).  A device is null, or wraps a monochrome or a     *)
(* colour camera.                                                          *)
(***************************************************************************)
NullDevice == "null"

Devices == {NullDevice, "mono", "color"}

frameRate(dev) == IF dev = "null" THEN -1 ELSE 30

resolution(dev) == IF dev = "null" THEN <<-1, -1>> ELSE <<1280, 960>>

pixelFormat(dev) ==
    CASE dev = "null" -> "None"
      [] dev = "mono" -> "Mono8"
      [] OTHER        -> "Bgr8"

MonoFormats == {"Mono8", "Mono10", "Mono10p", "Mono12", "Mono12Packed",
                "Mono12p", "Mono14", "Mono16"}

(***************************************************************************)
(* VimbaVideoRecorder                                                      *)
(***************************************************************************)
StoppedState == "Stopped"
RecordingState == "Recording"
PausedState == "Paused"
RecorderState == {StoppedState, RecordingState, PausedState}

FrameRates == {0, 25}
Resolutions == {<<-1, -1>>, <<640, 0>>, <<640, 480>>}
Locations == {"a"}
NoLocation == ""

Access(who, field, kind) ==
    [who |-> who, field |-> field, kind |-> kind, locked |-> lock = who]

NoAccess == [who |-> "none", field |-> "none", kind |-> "none", locked |-> TRUE]

NoWrite == [target |-> None, open |-> TRUE, state |-> "none"]

RecInit ==
    /\ recorderState = StoppedState
    /\ writer = None
    /\ released = {}
    /\ lastWriterId = 2
    /\ writerArgs = [fps |-> 0, size |-> <<0, 0>>, isColor |-> FALSE]
    /\ lock = "free"
    /\ actualLocation = NoLocation
    /\ outputLocation = NoLocation
    /\ cfgFrameRate = 0
    /\ cfgResolution = <<-1, -1>>
    /\ recSession = None
    /\ ctlPc = "idle"
    /\ dlvPc = "idle"
    /\ lastCall = [op |-> "none", state |-> StoppedState, writer |-> None,
                   location |-> NoLocation]
    /\ recSignals = <<>>
    /\ wlog = NoWrite
    /\ lastAccess = NoAccess
    /\ recError = FALSE

\* The snapshot a call of record/pause/stop starts from.
Called(op) ==
    [op |-> op, state |-> recorderState, writer |-> writer,
     location |-> actualLocation]

\* captureSession().camera().cameraDevice() of record(), capture.py 440-461
RecordDevice == camDevice[sessCamera[recSession]]

\* record(): the frame rate of the writer, capture.py 449-453 (<= 0: return).
RecordFps ==
    IF cfgFrameRate <= 0 THEN frameRate(RecordDevice) ELSE cfgFrameRate

\* A record() that takes the size of the camera device whenever it takes
\* the frame rate of the camera device.
RecordSize_coupled ==
    IF cfgFrameRate <= 0 \/ (\E i \in 1..2 : cfgResolution[i] <= 0)
    THEN resolution(RecordDevice) ELSE cfgResolution

\* record(): the size of the writer, capture.py 455-459.
RecordSize ==
    IF \E i \in 1..2 : cfgResolution[i] <= 0
    THEN resolution(RecordDevice) ELSE cfgResolution

\* A record() that tests the session and the camera only.
RecordReady_attached ==
    /\ recSession # None
    /\ sessCamera[recSession] # None

\* record() from StoppedState goes on to open a writer, capture.py 437-463.
RecordReady ==
    /\ recSession # None
    /\ sessCamera[recSession] # None
    /\ RecordFps > 0
    /\ \A i \in 1..2 : RecordSize[i] > 0
    /\ pixelFormat(RecordDevice) # "None"

NewWriterId == IF lastWriterId = 1 THEN 2 ELSE 1

(***************************************************************************)
(* The control thread: record(), capture.py 428-494.                       *)
(***************************************************************************)
\* The call: the unlocked read of recorderState() that picks the branch.
\* In RecordingState, and in StoppedState with a failed precondition, the
\* call returns at once.
Recorder_record ==
    /\ ctlPc = "idle"
    /\ mainPc.at = "idle"
    /\ lastCall' = Called("record")
    /\ recSignals' = <<>>
    /\ lastAccess' = Access("ctl", "state", "read")
    /\ ctlPc' = CASE recorderState = StoppedState /\ RecordReady -> "rec_lock"
                  [] recorderState = PausedState -> "res_set"
                  [] OTHER -> "idle"
    /\ UNCHANGED <<recorderState, writer, released, lastWriterId, writerArgs,
                   lock, actualLocation, outputLocation, cfgFrameRate,
                   cfgResolution, recSession, dlvPc, wlog, recError>>
    /\ UNCHANGED nonRecVars

\* self._lock.lock(), capture.py 478
Recorder_record_lock ==
    /\ ctlPc = "rec_lock"
    /\ lock = "free"
    /\ lock' = "ctl"
    /\ ctlPc' = "rec_open"
    /\ UNCHANGED <<recorderState, writer, released, lastWriterId, writerArgs,
                   actualLocation, outputLocation, cfgFrameRate, cfgResolution,
                   recSession, dlvPc, lastCall, recSignals, wlog,
                   lastAccess, recError>>
    /\ UNCHANGED nonRecVars

\* self._writer = cv2.VideoWriter(path, fourcc, fps, size, isColor), 479
Recorder_record_open ==
    /\ ctlPc = "rec_open"
    /\ writer' = NewWriterId
    /\ lastWriterId' = NewWriterId
    /\ released' = released \ {NewWriterId}
    /\ writerArgs' = [fps |-> RecordFps, size |-> RecordSize,
                      isColor |-> pixelFormat(RecordDevice) \notin MonoFormats]
    /\ lastAccess' = Access("ctl", "writer", "write")
    /\ ctlPc' = "rec_state"
    /\ UNCHANGED <<recorderState, lock, actualLocation, outputLocation,
                   cfgFrameRate, cfgResolution, recSession, dlvPc,
                   lastCall, recSignals, wlog, recError>>
    /\ UNCHANGED nonRecVars

\* self._recorderState = self.RecordingState, 480
Recorder_record_state ==
    /\ ctlPc = "rec_state"
    /\ recorderState' = RecordingState
    /\ lastAccess' = Access("ctl", "state", "write")
    /\ ctlPc' = "rec_unlock"
    /\ UNCHANGED <<writer, released, lastWriterId, writerArgs, lock,
                   actualLocation, outputLocation, cfgFrameRate, cfgResolution,
                   recSession, dlvPc, lastCall, recSignals, wlog,
                   recError>>
    /\ UNCHANGED nonRecVars

\* self._lock.unlock(), 481
Recorder_record_unlock ==
    /\ ctlPc = "rec_unlock"
    /\ lock' = "free"
    /\ ctlPc' = "rec_emit"
    /\ UNCHANGED <<recorderState, writer, released, lastWriterId, writerArgs,
                   actualLocation, outputLocation, cfgFrameRate, cfgResolution,
                   recSession, dlvPc, lastCall, recSignals, wlog,
                   lastAccess, recError>>
    /\ UNCHANGED nonRecVars

\* self._actualLocation = ...; actualLocationChanged.emit();
\* recorderStateChanged.emit(self.recorderState()), 483-485
Recorder_record_emit ==
    /\ ctlPc = "rec_emit"
    /\ actualLocation' = outputLocation \o ".mp4"
    /\ recSignals' = recSignals \o <<<<"actualLocationChanged", "">>,
                                     <<"recorderStateChanged", recorderState>>>>
    /\ lastAccess' = Access("ctl", "state", "read")
    /\ ctlPc' = "idle"
    /\ UNCHANGED <<recorderState, writer, released, lastWriterId, writerArgs,
                   lock, outputLocation, cfgFrameRate, cfgResolution,
                   recSession, dlvPc, lastCall, wlog, recError>>
    /\ UNCHANGED nonRecVars

\* A resume that opens a new writer, as a record() from StoppedState does.
Recorder_record_reopen ==
    /\ ctlPc = "res_set"
    /\ recorderState' = RecordingState
    /\ writer' = NewWriterId
    /\ lastWriterId' = NewWriterId
    /\ lastAccess' = Access("ctl", "state", "write")
    /\ ctlPc' = "state_emit"
    /\ UNCHANGED <<released, writerArgs, lock, actualLocation,
                   outputLocation, cfgFrameRate, cfgResolution, recSession,
                   dlvPc, lastCall, recSignals, wlog, recError>>
    /\ UNCHANGED nonRecVars

\* The resume branch: self._recorderState = self.RecordingState, 490
Recorder_record_resume ==
    /\ ctlPc = "res_set"
    /\ recorderState' = RecordingState
    /\ lastAccess' = Access("ctl", "state", "write")
    /\ ctlPc' = "state_emit"
    /\ UNCHANGED <<writer, released, lastWriterId, writerArgs, lock,
                   actualLocation, outputLocation, cfgFrameRate, cfgResolution,
                   recSession, dlvPc, lastCall, recSignals, wlog,
                   recError>>
    /\ UNCHANGED nonRecVars

\* recorderStateChanged.emit(self.recorderState()): 491, 505 and 521
Recorder_emitState ==
    /\ ctlPc = "state_emit"
    /\ recSignals' = Append(recSignals, <<"recorderStateChanged", recorderState>>)
    /\ lastAccess' = Access("ctl", "state", "read")
    /\ ctlPc' = "idle"
    /\ UNCHANGED <<recorderState, writer, released, lastWriterId, writerArgs,
                   lock, actualLocation, outputLocation, cfgFrameRate,
                   cfgResolution, recSession, dlvPc, lastCall, wlog,
                   recError>>
    /\ UNCHANGED nonRecVars

\* A pause() that does not look at the state it is called in.
Recorder_pause_unguarded ==
    /\ ctlPc = "idle"
    /\ mainPc.at = "idle"
    /\ lastCall' = Called("pause")
    /\ recSignals' = <<>>
    /\ lastAccess' = Access("ctl", "state", "read")
    /\ ctlPc' = IF recorderState # PausedState THEN "pause_set" ELSE "idle"
    /\ UNCHANGED <<recorderState, writer, released, lastWriterId, writerArgs,
                   lock, actualLocation, outputLocation, cfgFrameRate,
                   cfgResolution, recSession, dlvPc, wlog, recError>>
    /\ UNCHANGED nonRecVars

(***************************************************************************)
(* pause(), capture.py 496-506                                             *)
(***************************************************************************)
Recorder_pause ==
    /\ ctlPc = "idle"
    /\ mainPc.at = "idle"
    /\ lastCall' = Called("pause")
    /\ recSignals' = <<>>
    /\ lastAccess' = Access("ctl", "state", "read")
    /\ ctlPc' = IF recorderState = RecordingState THEN "pause_set" ELSE "idle"
    /\ UNCHANGED <<recorderState, writer, released, lastWriterId, writerArgs,
                   lock, actualLocation, outputLocation, cfgFrameRate,
                   cfgResolution, recSession, dlvPc, wlog, recError>>
    /\ UNCHANGED nonRecVars

\* self._recorderState = self.PausedState, 504
Recorder_pause_set ==
    /\ ctlPc = "pause_set"
    /\ recorderState' = PausedState
    /\ lastAccess' = Access("ctl", "state", "write")
    /\ ctlPc' = "state_emit"
    /\ UNCHANGED <<writer, released, lastWriterId, writerArgs, lock,
                   actualLocation, outputLocation, cfgFrameRate, cfgResolution,
                   recSession, dlvPc, lastCall, recSignals, wlog,
                   recError>>
    /\ UNCHANGED nonRecVars

\* A stop() that does not look at the state it is called in.
Recorder_stop_unguarded ==
    /\ ctlPc = "idle"
    /\ mainPc.at = "idle"
    /\ lastCall' = Called("stop")
    /\ recSignals' = <<>>
    /\ lastAccess' = Access("ctl", "state", "read")
    /\ ctlPc' = "stop_lock"
    /\ UNCHANGED <<recorderState, writer, released, lastWriterId, writerArgs,
                   lock, actualLocation, outputLocation, cfgFrameRate,
                   cfgResolution, recSession, dlvPc, wlog, recError>>
    /\ UNCHANGED nonRecVars

\* A stop() that goes on without taking the mutex.
Recorder_stop_nolock ==
    /\ ctlPc = "stop_lock"
    /\ ctlPc' = "stop_state"
    /\ UNCHANGED <<recorderState, writer, released, lastWriterId, writerArgs,
                   lock, actualLocation, outputLocation, cfgFrameRate,
                   cfgResolution, recSession, dlvPc, lastCall,
                   recSignals, wlog, lastAccess, recError>>
    /\ UNCHANGED nonRecVars

(***************************************************************************)
(* stop(), capture.py 508-524                                              *)
(***************************************************************************)
Recorder_stop ==
    /\ ctlPc = "idle"
    /\ mainPc.at = "idle"
    /\ lastCall' = Called("stop")
    /\ recSignals' = <<>>
    /\ lastAccess' = Access("ctl", "state", "read")
    /\ ctlPc' = IF recorderState # StoppedState THEN "stop_lock" ELSE "idle"
    /\ UNCHANGED <<recorderState, writer, released, lastWriterId, writerArgs,
                   lock, actualLocation, outputLocation, cfgFrameRate,
                   cfgResolution, recSession, dlvPc, wlog, recError>>
    /\ UNCHANGED nonRecVars

\* self._lock.lock(), 516
Recorder_stop_lock ==
    /\ ctlPc = "stop_lock"
    /\ lock = "free"
    /\ lock' = "ctl"
    /\ ctlPc' = "stop_state"
    /\ UNCHANGED <<recorderState, writer, released, lastWriterId, writerArgs,
                   actualLocation, outputLocation, cfgFrameRate, cfgResolution,
                   recSession, dlvPc, lastCall, recSignals, wlog,
                   lastAccess, recError>>
    /\ UNCHANGED nonRecVars

\* self._recorderState = self.StoppedState, 517
Recorder_stop_state ==
    /\ ctlPc = "stop_state"
    /\ recorderState' = StoppedState
    /\ lastAccess' = Access("ctl", "state", "write")
    /\ ctlPc' = "stop_release"
    /\ UNCHANGED <<writer, released, lastWriterId, writerArgs, lock,
                   actualLocation, outputLocation, cfgFrameRate, cfgResolution,
                   recSession, dlvPc, lastCall, recSignals, wlog,
                   recError>>
    /\ UNCHANGED nonRecVars

\* self._writer.release(), 518: AttributeError when the writer is None
Recorder_stop_release ==
    /\ ctlPc = "stop_release"
    /\ released' = IF writer = None THEN released ELSE released \cup {writer}
    /\ recError' = (recError \/ writer = None)
    /\ lastAccess' = Access("ctl", "writer", "read")
    /\ ctlPc' = "stop_none"
    /\ UNCHANGED <<recorderState, writer, lastWriterId, writerArgs, lock,
                   actualLocation, outputLocation, cfgFrameRate, cfgResolution,
                   recSession, dlvPc, lastCall, recSignals, wlog>>
    /\ UNCHANGED nonRecVars

\* A stop() that keeps the released writer in _writer.
Recorder_stop_none_keep ==
    /\ ctlPc = "stop_none"
    /\ lastAccess' = Access("ctl", "writer", "write")
    /\ ctlPc' = "stop_unlock"
    /\ UNCHANGED <<recorderState, writer, released, lastWriterId, writerArgs,
                   lock, actualLocation, outputLocation, cfgFrameRate,
                   cfgResolution, recSession, dlvPc, lastCall, recSignals,
                   wlog, recError>>
    /\ UNCHANGED nonRecVars

\* self._writer = None, 519
Recorder_stop_none ==
    /\ ctlPc = "stop_none"
    /\ writer' = None
    /\ lastAccess' = Access("ctl", "writer", "write")
    /\ ctlPc' = "stop_unlock"
    /\ UNCHANGED <<recorderState, released, lastWriterId, writerArgs, lock,
                   actualLocation, outputLocation, cfgFrameRate, cfgResolution,
                   recSession, dlvPc, lastCall, recSignals, wlog,
                   recError>>
    /\ UNCHANGED nonRecVars

\* self._lock.unlock(), 520
Recorder_stop_unlock ==
    /\ ctlPc = "stop_unlock"
    /\ lock' = "free"
    /\ ctlPc' = "state_emit"
    /\ UNCHANGED <<recorderState, writer, released, lastWriterId, writerArgs,
                   actualLocation, outputLocation, cfgFrameRate, cfgResolution,
                   recSession, dlvPc, lastCall, recSignals, wlog,
                   lastAccess, recError>>
    /\ UNCHANGED nonRecVars

(***************************************************************************)
(* The frame delivery thread: _setArray, capture.py 526-531                *)
(***************************************************************************)
\* self._lock.lock(), 528
Recorder_setArray ==
    /\ dlvPc = "idle"
    /\ lock = "free"
    /\ lock' = "dlv"
    /\ dlvPc' = "d_check"
    /\ UNCHANGED <<recorderState, writer, released, lastWriterId, writerArgs,
                   actualLocation, outputLocation, cfgFrameRate, cfgResolution,
                   recSession, ctlPc, lastCall, recSignals, wlog,
                   lastAccess, recError>>
    /\ UNCHANGED nonRecVars

\* if self.recorderState() is self.RecordingState, 529
Recorder_setArray_check ==
    /\ dlvPc = "d_check"
    /\ lastAccess' = Access("dlv", "state", "read")
    /\ dlvPc' = IF recorderState = RecordingState THEN "d_write" ELSE "d_unlock"
    /\ UNCHANGED <<recorderState, writer, released, lastWriterId, writerArgs,
                   lock, actualLocation, outputLocation, cfgFrameRate,
                   cfgResolution, recSession, ctlPc, lastCall,
                   recSignals, wlog, recError>>
    /\ UNCHANGED nonRecVars

\* self._writer.write(array), 530: AttributeError when the writer is None
Recorder_setArray_write ==
    /\ dlvPc = "d_write"
    /\ wlog' = [target |-> writer, open |-> writer \notin released,
                state |-> recorderState]
    /\ recError' = (recError \/ writer = None)
    /\ lastAccess' = Access("dlv", "writer", "read")
    /\ dlvPc' = "d_unlock"
    /\ UNCHANGED <<recorderState, writer, released, lastWriterId, writerArgs,
                   lock, actualLocation, outputLocation, cfgFrameRate,
                   cfgResolution, recSession, ctlPc, lastCall,
                   recSignals>>
    /\ UNCHANGED nonRecVars

\* self._lock.unlock(), 531
Recorder_setArray_unlock ==
    /\ dlvPc = "d_unlock"
    /\ lock' = "free"
    /\ dlvPc' = "idle"
    /\ UNCHANGED <<recorderState, writer, released, lastWriterId, writerArgs,
                   actualLocation, outputLocation, cfgFrameRate, cfgResolution,
                   recSession, ctlPc, lastCall, recSignals, wlog,
                   lastAccess, recError>>
    /\ UNCHANGED nonRecVars

(***************************************************************************)
(* The setters, capture.py 408-426                                         *)
(***************************************************************************)
Recorder_setOutputLocation(location) ==
    /\ ctlPc = "idle"
    /\ mainPc.at = "idle"
    /\ outputLocation' = location
    /\ lastCall' = Called("set")
    /\ recSignals' = <<>>
    /\ UNCHANGED <<recorderState, writer, released, lastWriterId, writerArgs,
                   lock, actualLocation, cfgFrameRate, cfgResolution,
                   recSession, ctlPc, dlvPc, wlog, lastAccess,
                   recError>>
    /\ UNCHANGED nonRecVars

Recorder_setVideoFrameRate(fps) ==
    /\ ctlPc = "idle"
    /\ mainPc.at = "idle"
    /\ cfgFrameRate' = fps
    /\ lastCall' = Called("set")
    /\ recSignals' = <<<<"videoFrameRateChanged", "">>>>
    /\ UNCHANGED <<recorderState, writer, released, lastWriterId, writerArgs,
                   lock, actualLocation, outputLocation, cfgResolution,
                   recSession, ctlPc, dlvPc, wlog, lastAccess,
                   recError>>
    /\ UNCHANGED nonRecVars

Recorder_setVideoResolution(size) ==
    /\ ctlPc = "idle"
    /\ mainPc.at = "idle"
    /\ cfgResolution' = size
    /\ lastCall' = Called("set")
    /\ recSignals' = <<<<"videoResolutionChanged", "">>>>
    /\ UNCHANGED <<recorderState, writer, released, lastWriterId, writerArgs,
                   lock, actualLocation, outputLocation, cfgFrameRate,
                   recSession, ctlPc, dlvPc, wlog, lastAccess,
                   recError>>
    /\ UNCHANGED nonRecVars

(***************************************************************************)
(* Frames.  A frame carries the camera it was captured from and its size;  *)
(* after is bookkeeping for the claims: the sessions that had switched     *)
(* away from the camera when the frame was captured.                       *)
(***************************************************************************)
FrameSizes == {<<640, 480>>}

FrameStatus == {"Complete", "Incomplete"}

NoFrame == [cam |-> None, size |-> <<0, 0>>, after |-> {}]

Frame(c, size) == [cam |-> c, size |-> size, after |-> switchedAway[c]]

\* The frame as the sinks see it.
Pixels(f) == [f EXCEPT !.after = {}]

NoDelivery ==
    [cam |-> None, sess |-> None, size |-> <<0, 0>>, after |-> {},
     calls |-> <<>>, signals |-> <<>>]

MainIdle == [at |-> "idle", s |-> None, c |-> None]

\* No setCameraDevice call was made yet.
NoDevCall == [at |-> "none", cam |-> None, device |-> "none",
              wasRunning |-> FALSE, session |-> None]

\* No stopVimba call was made yet.
NoStopVimba == [at |-> "none", cam |-> None, wasActive |-> {}, log |-> <<>>]

\* The main thread is inside no call.
Idle ==
    /\ mainPc.at = "idle"
    /\ ctlPc = "idle"
    /\ devCall.at = "none"
    /\ stopV.at \in {"none", "returned"}

\* The delivery thread is outside _setArray.
DlvIdle == [at |-> "idle", frame |-> NoFrame]

NoCapture ==
    [ret |-> -2, session |-> None, image |-> NoFrame, wrote |-> NoFrame,
     signals |-> <<>>, id |-> 0, delivered |-> 0, quiet |-> TRUE]

SessInit ==
    /\ sessCamera = [s \in Sessions |-> None]
    /\ sessArraySink = [s \in Sessions |-> None]
    /\ sessImageCapture = [s \in Sessions |-> None]
    /\ sessRecorder = [s \in Sessions |-> None]
    /\ mainPc = MainIdle
    /\ sessSignals = <<>>
    /\ camSession = [c \in Cameras |-> None]
    /\ consumerSession = [c \in Cameras |-> None]
    /\ frameQueue = [c \in Cameras |-> <<>>]
    /\ consumerPc = [c \in Cameras |-> "off"]
    /\ consumerFrame = [c \in Cameras |-> NoFrame]
    /\ consumerLocal = [c \in Cameras |-> None]
    /\ switchedAway = [c \in Cameras |-> {}]
    /\ lastDelivery = NoDelivery
    /\ sessError = FALSE
    /\ sinkArray = NoFrame
    /\ sinkSize = <<-1, -1>>
    /\ icSession = None
    /\ icImage = NoFrame
    /\ icCapturing = FALSE
    /\ icId = 0
    /\ icDlv = DlvIdle
    /\ icDelivered = 0
    /\ lastCapture = NoCapture

\* What a run of FrameProducer did: it reached start_streaming, that call
\* returned, ready was emitted, stop_streaming was called, and where an SDK
\* call raised.
NoRun == [reached |-> FALSE, started |-> FALSE, ready |-> FALSE,
          stopped |-> FALSE, failed |-> "none"]

NoCallback == [cam |-> None, status |-> "none", ops |-> <<>>]

(***************************************************************************)
(* VimbaCameraFormat (camera.py 277-345) and VimbaCamera.cameraFormat()     *)
(* (85-99).  A format object is the record of its attributes: _frameRate,  *)
(* _pixelFormat and _resolution, which __init__ assigns, and _resoultion,   *)
(* the attribute _setResolution assigns.                                   *)
(***************************************************************************)
\* An attribute that was never assigned.
Unset == <<>>

\* VimbaCameraFormat(), 286-289
VimbaCameraFormat ==
    [frameRate |-> -1, pixelFormat |-> "None", resolution |-> <<-1, -1>>,
     resoultion |-> Unset]

\* frameRate(), 319-321
Format_frameRate(f) == f.frameRate

\* pixelFormat(), 326-330
Format_pixelFormat(f) == f.pixelFormat

\* resolution(), 335-337
Format_resolution(f) == f.resolution

\* isNull(), 309-317
Format_isNull(f) ==
    /\ f.frameRate = -1
    /\ f.pixelFormat = "None"
    /\ f.resolution = <<-1, -1>>

\* _setFrameRate, 323-324
Format_setFrameRate(f, v) == [f EXCEPT !.frameRate = v]

\* _setPixelFormat, 332-333
Format_setPixelFormat(f, v) == [f EXCEPT !.pixelFormat = v]

\* _setResolution, 344-345: self._resoultion = resolution
Format_setResolution(f, v) == [f EXCEPT !.resoultion = v]

\* What the features of a camera can be read as.
FeatureRates == {15, 30}

FeaturePixelFormats == {"Mono8", "Bgr8"}

FeatureWidths == {640, 1280}

FeatureHeights == {480, 960}

NoRead == [fps |-> -1, pf |-> "None", w |-> -1, h |-> -1]

\* No cameraFormat() call was made yet.
NoFormat == [cam |-> None, device |-> NullDevice, read |-> NoRead,
             ret |-> VimbaCameraFormat]

\* cameraFormat(), 85-99, on a camera whose features read as fps, pf, w, h
Camera_cameraFormat(c, fps, pf, w, h) ==
    /\ Idle
    /\ LET ret == VimbaCameraFormat
           qsize == <<w, h>>
       IN  lastFormat' =
             IF camDevice[c] # NullDevice
             THEN [cam |-> c, device |-> camDevice[c],
                   read |-> [fps |-> fps, pf |-> pf, w |-> w, h |-> h],
                   ret |-> Format_setResolution(
                             Format_setPixelFormat(
                               Format_setFrameRate(ret, fps), pf),
                             qsize)]
             ELSE [cam |-> c, device |-> NullDevice, read |-> NoRead,
                   ret |-> ret]
    /\ UNCHANGED <<recorderState, writer, released, lastWriterId, writerArgs,
                   lock, actualLocation, outputLocation, cfgFrameRate,
                   cfgResolution, recSession, ctlPc, dlvPc, lastCall,
                   recSignals, wlog, lastAccess, recError, sessCamera,
                   sessArraySink, sessImageCapture, sessRecorder, mainPc,
                   sessSignals, camDevice, camSession, consumerSession,
                   frameQueue, consumerPc, consumerFrame, consumerLocal,
                   switchedAway, lastDelivery, sessError, sinkArray, sinkSize,
                   icSession, icImage, icCapturing, camActive, prodPc,
                   prodQuit, readyPending, consAlive, consQuit,
                   runningCameras, lastOp, lastCamCall, camSignals,
                   camThreadOps, vidImageCapture, vidRecorder, vidSink,
                   videoFrame, protoFrame, lastSetFrame, sdkCameras,
                   videoInputs, hpPc, hpEvent, devSignals, lastDefault,
                   prodRun, lastCallback, icId, icDlv, icDelivered,
                   lastCapture, devCall, inputsRef, listHeap, held, runPc,
                   stopV, vrState, vrWriter, vrClosed, vrLock, vrCtlPc,
                   vrDlvPc, vrAppend>>

CamInit ==
    /\ camDevice = [c \in Cameras |-> IF c = 1 THEN "mono" ELSE "color"]
    /\ camActive = [c \in Cameras |-> FALSE]
    /\ prodPc = [c \in Cameras |-> "off"]
    /\ prodQuit = [c \in Cameras |-> FALSE]
    /\ readyPending = [c \in Cameras |-> FALSE]
    /\ prodRun = [c \in Cameras |-> NoRun]
    /\ lastCallback = NoCallback
    /\ devCall = NoDevCall
    /\ lastFormat = NoFormat
    /\ consAlive = [c \in Cameras |-> FALSE]
    /\ consQuit = [c \in Cameras |-> FALSE]
    /\ runningCameras = <<>>
    /\ lastOp = [c \in Cameras |-> "none"]
    /\ lastCamCall = [op |-> "none", cam |-> None, active |-> FALSE,
                      running |-> <<>>]
    /\ camSignals = <<>>
    /\ camThreadOps = <<>>

(***************************************************************************)
(* VimbaCaptureSession.setCamera, capture.py 100-108, with                 *)
(* VimbaCamera._removeCaptureSession and _setCaptureSession,               *)
(* camera.py 142-148.                                                      *)
(***************************************************************************)
\* A setCamera whose _removeCaptureSession leaves the FrameConsumer its
\* session.
Session_setCamera_keep(s, c) ==
    /\ Idle
    /\ LET old == sessCamera[s] IN
         /\ consumerSession' = consumerSession
         /\ camSession' = IF old # None
                          THEN [camSession EXCEPT ![old] = None]
                          ELSE camSession
         /\ switchedAway' = IF old # None /\ old # c
                            THEN [switchedAway EXCEPT ![old] = @ \cup {s}]
                            ELSE switchedAway
    /\ mainPc' = [at |-> "setCamera", s |-> s, c |-> c]
    /\ sessSignals' = <<>>
    /\ UNCHANGED <<recorderState, writer, released, lastWriterId, writerArgs,
                   lock, actualLocation, outputLocation, cfgFrameRate,
                   cfgResolution, recSession, ctlPc, dlvPc, lastCall,
                   recSignals, wlog, lastAccess, recError, sessCamera,
                   sessArraySink, sessImageCapture, sessRecorder, camDevice,
                   frameQueue, consumerPc, consumerFrame, consumerLocal,
                   lastDelivery, sessError, sinkArray, sinkSize, icSession,
                   icImage, icCapturing, camActive, prodPc, prodQuit,
                   readyPending, consAlive, consQuit, runningCameras, lastOp,
                   lastCamCall, camSignals, camThreadOps, vidImageCapture,
                   vidRecorder, vidSink, videoFrame, protoFrame, lastSetFrame,
                   sdkCameras, videoInputs, hpPc, hpEvent, devSignals,
                   lastDefault, prodRun, lastCallback, icId, icDlv,
                   icDelivered, lastCapture, devCall, inputsRef, listHeap,
                   held, runPc, stopV, lastFormat, vrState, vrWriter,
                   vrClosed, vrLock, vrCtlPc, vrDlvPc, vrAppend>>

\* old_camera = self.camera(); if old_camera is not None:
\*     old_camera._removeCaptureSession()
Session_setCamera(s, c) ==
    /\ Idle
    /\ LET old == sessCamera[s] IN
         /\ consumerSession' = IF old # None
                               THEN [consumerSession EXCEPT ![old] = None]
                               ELSE consumerSession
         /\ camSession' = IF old # None
                          THEN [camSession EXCEPT ![old] = None]
                          ELSE camSession
         /\ switchedAway' = IF old # None /\ old # c
                            THEN [switchedAway EXCEPT ![old] = @ \cup {s}]
                            ELSE switchedAway
    /\ mainPc' = [at |-> "setCamera", s |-> s, c |-> c]
    /\ sessSignals' = <<>>
    /\ UNCHANGED <<recorderState, writer, released, lastWriterId, writerArgs,
                   lock, actualLocation, outputLocation, cfgFrameRate,
                   cfgResolution, recSession, ctlPc, dlvPc, lastCall,
                   recSignals, wlog, lastAccess, recError, sessCamera,
                   sessArraySink, sessImageCapture, sessRecorder, camDevice,
                   frameQueue, consumerPc, consumerFrame, consumerLocal,
                   lastDelivery, sessError, sinkArray, sinkSize, icSession,
                   icImage, icCapturing, camActive, prodPc, prodQuit,
                   readyPending, consAlive, consQuit, runningCameras, lastOp,
                   lastCamCall, camSignals, camThreadOps, vidImageCapture,
                   vidRecorder, vidSink, videoFrame, protoFrame, lastSetFrame,
                   sdkCameras, videoInputs, hpPc, hpEvent, devSignals,
                   lastDefault, prodRun, lastCallback, icId, icDlv,
                   icDelivered, lastCapture, devCall, inputsRef, listHeap,
                   held, runPc, stopV, lastFormat, vrState, vrWriter,
                   vrClosed, vrLock, vrCtlPc, vrDlvPc, vrAppend>>

\* The frame of camera c is no longer one captured after s switched away.
Reattached(f, s) == [f EXCEPT !.after = @ \ {s}]

\* self._camera = camera; if camera is not None:
\*     camera._setCaptureSession(self); self.cameraChanged.emit()
Session_setCamera_attach ==
    /\ mainPc.at = "setCamera"
    /\ LET s == mainPc.s
           c == mainPc.c
       IN  /\ sessCamera' = [sessCamera EXCEPT ![s] = c]
           /\ IF c # None
              THEN /\ consumerSession' = [consumerSession EXCEPT ![c] = s]
                   /\ camSession' = [camSession EXCEPT ![c] = s]
                   /\ switchedAway' = [switchedAway EXCEPT ![c] = @ \ {s}]
                   /\ frameQueue' = [frameQueue EXCEPT ![c] =
                         [i \in 1..Len(@) |-> Reattached(@[i], s)]]
                   /\ consumerFrame' = [consumerFrame EXCEPT ![c] =
                                           Reattached(@, s)]
              ELSE UNCHANGED <<consumerSession, camSession, switchedAway,
                               frameQueue, consumerFrame>>
    /\ sessSignals' = <<"cameraChanged">>
    /\ mainPc' = MainIdle
    /\ UNCHANGED <<recorderState, writer, released, lastWriterId, writerArgs,
                   lock, actualLocation, outputLocation, cfgFrameRate,
                   cfgResolution, recSession, ctlPc, dlvPc, lastCall,
                   recSignals, wlog, lastAccess, recError, sessArraySink,
                   sessImageCapture, sessRecorder, camDevice, consumerPc,
                   consumerLocal, lastDelivery, sessError, sinkArray,
                   sinkSize, icSession, icImage, icCapturing, camActive,
                   prodPc, prodQuit, readyPending, consAlive, consQuit,
                   runningCameras, lastOp, lastCamCall, camSignals,
                   camThreadOps, vidImageCapture, vidRecorder, vidSink,
                   videoFrame, protoFrame, lastSetFrame, sdkCameras,
                   videoInputs, hpPc, hpEvent, devSignals, lastDefault,
                   prodRun, lastCallback, icId, icDlv, icDelivered,
                   lastCapture, devCall, inputsRef, listHeap, held, runPc,
                   stopV, lastFormat, vrState, vrWriter, vrClosed, vrLock,
                   vrCtlPc, vrDlvPc, vrAppend>>

\* setArraySink, capture.py 110-112
Session_setArraySink(s, sink) ==
    /\ Idle
    /\ sessArraySink' = [sessArraySink EXCEPT ![s] = sink]
    /\ sessSignals' = <<>>
    /\ UNCHANGED <<recorderState, writer, released, lastWriterId, writerArgs,
                   lock, actualLocation, outputLocation, cfgFrameRate,
                   cfgResolution, recSession, ctlPc, dlvPc, lastCall,
                   recSignals, wlog, lastAccess, recError, sessCamera,
                   sessImageCapture, sessRecorder, mainPc, camDevice,
                   camSession, consumerSession, frameQueue, consumerPc,
                   consumerFrame, consumerLocal, switchedAway, lastDelivery,
                   sessError, sinkArray, sinkSize, icSession, icImage,
                   icCapturing, camActive, prodPc, prodQuit, readyPending,
                   consAlive, consQuit, runningCameras, lastOp, lastCamCall,
                   camSignals, camThreadOps, vidImageCapture, vidRecorder,
                   vidSink, videoFrame, protoFrame, lastSetFrame, sdkCameras,
                   videoInputs, hpPc, hpEvent, devSignals, lastDefault,
                   prodRun, lastCallback, icId, icDlv, icDelivered,
                   lastCapture, devCall, inputsRef, listHeap, held, runPc,
                   stopV, lastFormat, vrState, vrWriter, vrClosed, vrLock,
                   vrCtlPc, vrDlvPc, vrAppend>>

\* setImageCapture, capture.py 114-124
Session_setImageCapture(s, imageCapture) ==
    /\ Idle
    /\ sessImageCapture' = [sessImageCapture EXCEPT ![s] = imageCapture]
    /\ icSession' = CASE imageCapture # None -> s
                      [] sessImageCapture[s] # None -> None
                      [] OTHER -> icSession
    /\ sessSignals' = <<"imageCaptureChanged">>
    /\ UNCHANGED <<recorderState, writer, released, lastWriterId, writerArgs,
                   lock, actualLocation, outputLocation, cfgFrameRate,
                   cfgResolution, recSession, ctlPc, dlvPc, lastCall,
                   recSignals, wlog, lastAccess, recError, sessCamera,
                   sessArraySink, sessRecorder, mainPc, camDevice, camSession,
                   consumerSession, frameQueue, consumerPc, consumerFrame,
                   consumerLocal, switchedAway, lastDelivery, sessError,
                   sinkArray, sinkSize, icImage, icCapturing, camActive,
                   prodPc, prodQuit, readyPending, consAlive, consQuit,
                   runningCameras, lastOp, lastCamCall, camSignals,
                   camThreadOps, vidImageCapture, vidRecorder, vidSink,
                   videoFrame, protoFrame, lastSetFrame, sdkCameras,
                   videoInputs, hpPc, hpEvent, devSignals, lastDefault,
                   prodRun, lastCallback, icId, icDlv, icDelivered,
                   lastCapture, devCall, inputsRef, listHeap, held, runPc,
                   stopV, lastFormat, vrState, vrWriter, vrClosed, vrLock,
                   vrCtlPc, vrDlvPc, vrAppend>>

\* A setRecorder that stops the recorder it takes or lets go.
Session_setRecorder_reset(s, recorder) ==
    /\ Idle
    /\ sessRecorder' = [sessRecorder EXCEPT ![s] = recorder]
    /\ recSession' = CASE recorder # None -> s
                       [] sessRecorder[s] # None -> None
                       [] OTHER -> recSession
    /\ recorderState' = StoppedState
    /\ sessSignals' = <<"recorderChanged">>
    /\ UNCHANGED <<writer, released, lastWriterId, writerArgs, lock,
                   actualLocation, outputLocation, cfgFrameRate,
                   cfgResolution, ctlPc, dlvPc, lastCall, recSignals, wlog,
                   lastAccess, recError, sessCamera, sessArraySink,
                   sessImageCapture, mainPc, camDevice, camSession,
                   consumerSession, frameQueue, consumerPc, consumerFrame,
                   consumerLocal, switchedAway, lastDelivery, sessError,
                   sinkArray, sinkSize, icSession, icImage, icCapturing,
                   camActive, prodPc, prodQuit, readyPending, consAlive,
                   consQuit, runningCameras, lastOp, lastCamCall, camSignals,
                   camThreadOps, vidImageCapture, vidRecorder, vidSink,
                   videoFrame, protoFrame, lastSetFrame, sdkCameras,
                   videoInputs, hpPc, hpEvent, devSignals, lastDefault,
                   prodRun, lastCallback, icId, icDlv, icDelivered,
                   lastCapture, devCall, inputsRef, listHeap, held, runPc,
                   stopV, lastFormat, vrState, vrWriter, vrClosed, vrLock,
                   vrCtlPc, vrDlvPc, vrAppend>>

\* setRecorder, capture.py 126-134
Session_setRecorder(s, recorder) ==
    /\ Idle
    /\ sessRecorder' = [sessRecorder EXCEPT ![s] = recorder]
    /\ recSession' = CASE recorder # None -> s
                       [] sessRecorder[s] # None -> None
                       [] OTHER -> recSession
    /\ sessSignals' = <<"recorderChanged">>
    /\ UNCHANGED <<recorderState, writer, released, lastWriterId, writerArgs,
                   lock, actualLocation, outputLocation, cfgFrameRate,
                   cfgResolution, ctlPc, dlvPc, lastCall, recSignals, wlog,
                   lastAccess, recError, sessCamera, sessArraySink,
                   sessImageCapture, mainPc, camDevice, camSession,
                   consumerSession, frameQueue, consumerPc, consumerFrame,
                   consumerLocal, switchedAway, lastDelivery, sessError,
                   sinkArray, sinkSize, icSession, icImage, icCapturing,
                   camActive, prodPc, prodQuit, readyPending, consAlive,
                   consQuit, runningCameras, lastOp, lastCamCall, camSignals,
                   camThreadOps, vidImageCapture, vidRecorder, vidSink,
                   videoFrame, protoFrame, lastSetFrame, sdkCameras,
                   videoInputs, hpPc, hpEvent, devSignals, lastDefault,
                   prodRun, lastCallback, icId, icDlv, icDelivered,
                   lastCapture, devCall, inputsRef, listHeap, held, runPc,
                   stopV, lastFormat, vrState, vrWriter, vrClosed, vrLock,
                   vrCtlPc, vrDlvPc, vrAppend>>

(***************************************************************************)
(* The sinks of VimbaCaptureSession._setArray, capture.py 136-146          *)
(***************************************************************************)
\* A _setArray without the test sink is not None.
HasArraySink_unchecked(s) == TRUE

\* sink = self.arraySink(); if sink is not None: sink.setArray(array)
HasArraySink(s) == sessArraySink[s] # None

\* imageCapture = self.imageCapture(); if imageCapture is not None: ...
HasImageCapture(s) == sessImageCapture[s] # None

\* recorder = self.recorder(); if recorder is not None: ...
HasRecorder(s) == sessRecorder[s] # None

\* The calls _setArray makes on the sinks of session s, in order.
SinkCalls(s) ==
    (IF HasArraySink(s) THEN <<"ArraySink.setArray">> ELSE <<>>)
    \o (IF HasImageCapture(s) THEN <<"VimbaImageCapture._setArray">> ELSE <<>>)
    \o (IF HasRecorder(s) THEN <<"VimbaVideoRecorder._setArray">> ELSE <<>>)

\* A setArray that emits videoSizeChanged for every frame.
ArraySink_signals_always(f) == <<"imageChanged", "videoSizeChanged">>

\* ArraySink.setArray, capture.py 179-200: the signals it emits
ArraySink_signals(f) ==
    <<"imageChanged">>
    \o (IF sinkSize # f.size THEN <<"videoSizeChanged">> ELSE <<>>)

\* VimbaCaptureSession._setArray(array) on session s, up to the call of
\* recorder._setArray; a call on a sink that is None raises AttributeError
Session_setArray(s, f) ==
    /\ sinkArray' = IF HasArraySink(s) /\ sessArraySink[s] # None
                    THEN Pixels(f) ELSE sinkArray
    /\ sinkSize' = IF HasArraySink(s) /\ sessArraySink[s] # None
                   THEN f.size ELSE sinkSize
    /\ icImage' = IF HasImageCapture(s) /\ sessImageCapture[s] # None
                     /\ ~icCapturing
                  THEN Pixels(f) ELSE icImage
    /\ sessError' = (sessError
                     \/ (HasArraySink(s) /\ sessArraySink[s] = None)
                     \/ (HasImageCapture(s) /\ sessImageCapture[s] = None)
                     \/ (HasRecorder(s) /\ sessRecorder[s] = None))
    /\ lastDelivery' = [cam |-> f.cam, sess |-> s, size |-> f.size,
                        after |-> f.after,
                        calls |-> SinkCalls(s),
                        signals |-> IF HasArraySink(s)
                                    THEN ArraySink_signals(f) ELSE <<>>]

(***************************************************************************)
(* VimbaImageCapture.captureToFile and _setArray, capture.py 294-322:      *)
(* captureToFile in the main thread, _setArray in the thread that delivers *)
(* the frames of the capture session.                                      *)
(***************************************************************************)
\* The frames delivered to the image capture are told apart by their width;
\* MaxFrames bounds how many are delivered.
FrameNo(f) == f.size[1]

Image(n) == Pixels(Frame(1, <<n, 1>>))

\* A captureToFile that does not look at the pending image.
ImageCapture_captureToFile_unchecked ==
    /\ Idle
    /\ mainPc' = IF icSession = None
                 THEN MainIdle
                 ELSE [at |-> "cap_flag", s |-> None, c |-> None]
    /\ IF icSession = None
       THEN lastCapture' = [NoCapture EXCEPT !.ret = -1,
                               !.session = icSession, !.image = icImage,
                               !.id = icId, !.delivered = icDelivered,
                               !.quiet = (icDlv = DlvIdle)]
       ELSE lastCapture' = [NoCapture EXCEPT !.session = icSession,
                               !.image = icImage, !.id = icId]
    /\ UNCHANGED <<recorderState, writer, released, lastWriterId, writerArgs,
                   lock, actualLocation, outputLocation, cfgFrameRate,
                   cfgResolution, recSession, ctlPc, dlvPc, lastCall,
                   recSignals, wlog, lastAccess, recError, sessCamera,
                   sessArraySink, sessImageCapture, sessRecorder, sessSignals,
                   camDevice, camSession, consumerSession, frameQueue,
                   consumerPc, consumerFrame, consumerLocal, switchedAway,
                   lastDelivery, sessError, sinkArray, sinkSize, icSession,
                   icImage, icCapturing, camActive, prodPc, prodQuit,
                   readyPending, consAlive, consQuit, runningCameras, lastOp,
                   lastCamCall, camSignals, camThreadOps, vidImageCapture,
                   vidRecorder, vidSink, videoFrame, protoFrame, lastSetFrame,
                   sdkCameras, videoInputs, hpPc, hpEvent, devSignals,
                   lastDefault, prodRun, lastCallback, icId, icDlv,
                   icDelivered, devCall, inputsRef, listHeap, held, runPc,
                   stopV, lastFormat, vrState, vrWriter, vrClosed, vrLock,
                   vrCtlPc, vrDlvPc, vrAppend>>

\* captureToFile: if self.captureSession() is None or self._image is None:
\* return -1, 303-304
ImageCapture_captureToFile ==
    /\ Idle
    /\ IF icSession = None \/ icImage = NoFrame
       THEN /\ mainPc' = MainIdle
            /\ lastCapture' = [NoCapture EXCEPT !.ret = -1,
                                   !.session = icSession, !.image = icImage,
                                   !.id = icId, !.delivered = icDelivered,
                                   !.quiet = (icDlv = DlvIdle)]
       ELSE /\ mainPc' = [at |-> "cap_flag", s |-> None, c |-> None]
            /\ lastCapture' = [NoCapture EXCEPT !.session = icSession,
                                   !.image = icImage, !.id = icId]
    /\ UNCHANGED <<recorderState, writer, released, lastWriterId, writerArgs,
                   lock, actualLocation, outputLocation, cfgFrameRate,
                   cfgResolution, recSession, ctlPc, dlvPc, lastCall,
                   recSignals, wlog, lastAccess, recError, sessCamera,
                   sessArraySink, sessImageCapture, sessRecorder, sessSignals,
                   camDevice, camSession, consumerSession, frameQueue,
                   consumerPc, consumerFrame, consumerLocal, switchedAway,
                   lastDelivery, sessError, sinkArray, sinkSize, icSession,
                   icImage, icCapturing, camActive, prodPc, prodQuit,
                   readyPending, consAlive, consQuit, runningCameras, lastOp,
                   lastCamCall, camSignals, camThreadOps, vidImageCapture,
                   vidRecorder, vidSink, videoFrame, protoFrame, lastSetFrame,
                   sdkCameras, videoInputs, hpPc, hpEvent, devSignals,
                   lastDefault, prodRun, lastCallback, icId, icDlv,
                   icDelivered, devCall, inputsRef, listHeap, held, runPc,
                   stopV, lastFormat, vrState, vrWriter, vrClosed, vrLock,
                   vrCtlPc, vrDlvPc, vrAppend>>

\* self._capturing = True, 305
ImageCapture_capture_flag ==
    /\ mainPc.at = "cap_flag"
    /\ icCapturing' = TRUE
    /\ mainPc' = [mainPc EXCEPT !.at = "cap_write"]
    /\ UNCHANGED <<recorderState, writer, released, lastWriterId, writerArgs,
                   lock, actualLocation, outputLocation, cfgFrameRate,
                   cfgResolution, recSession, ctlPc, dlvPc, lastCall,
                   recSignals, wlog, lastAccess, recError, sessCamera,
                   sessArraySink, sessImageCapture, sessRecorder, sessSignals,
                   camDevice, camSession, consumerSession, frameQueue,
                   consumerPc, consumerFrame, consumerLocal, switchedAway,
                   lastDelivery, sessError, sinkArray, sinkSize, icSession,
                   icImage, camActive, prodPc, prodQuit, readyPending,
                   consAlive, consQuit, runningCameras, lastOp, lastCamCall,
                   camSignals, camThreadOps, vidImageCapture, vidRecorder,
                   vidSink, videoFrame, protoFrame, lastSetFrame, sdkCameras,
                   videoInputs, hpPc, hpEvent, devSignals, lastDefault,
                   prodRun, lastCallback, icId, icDlv, icDelivered,
                   lastCapture, devCall, inputsRef, listHeap, held, runPc,
                   stopV, lastFormat, vrState, vrWriter, vrClosed, vrLock,
                   vrCtlPc, vrDlvPc, vrAppend>>

\* A captureToFile that does not count the image it saved.
ImageCapture_capture_write_same ==
    /\ mainPc.at = "cap_write"
    /\ lastCapture' = [lastCapture EXCEPT !.wrote = icImage,
                          !.signals = << <<"imageSaved", icId>> >>]
    /\ mainPc' = [mainPc EXCEPT !.at = "cap_clear"]
    /\ UNCHANGED <<recorderState, writer, released, lastWriterId, writerArgs,
                   lock, actualLocation, outputLocation, cfgFrameRate,
                   cfgResolution, recSession, ctlPc, dlvPc, lastCall,
                   recSignals, wlog, lastAccess, recError, sessCamera,
                   sessArraySink, sessImageCapture, sessRecorder, sessSignals,
                   camDevice, camSession, consumerSession, frameQueue,
                   consumerPc, consumerFrame, consumerLocal, switchedAway,
                   lastDelivery, sessError, sinkArray, sinkSize, icSession,
                   icImage, icCapturing, camActive, prodPc, prodQuit,
                   readyPending, consAlive, consQuit, runningCameras, lastOp,
                   lastCamCall, camSignals, camThreadOps, vidImageCapture,
                   vidRecorder, vidSink, videoFrame, protoFrame, lastSetFrame,
                   sdkCameras, videoInputs, hpPc, hpEvent, devSignals,
                   lastDefault, prodRun, lastCallback, icId, icDlv,
                   icDelivered, devCall, inputsRef, listHeap, held, runPc,
                   stopV, lastFormat, vrState, vrWriter, vrClosed, vrLock,
                   vrCtlPc, vrDlvPc, vrAppend>>

\* ret = self._id; cv2.imwrite(path, self._image); self._id += 1;
\* self.imageSaved.emit(ret, path), 307-312
ImageCapture_capture_write ==
    /\ mainPc.at = "cap_write"
    /\ lastCapture' = [lastCapture EXCEPT !.wrote = icImage,
                          !.signals = << <<"imageSaved", icId>> >>]
    /\ icId' = icId + 1
    /\ mainPc' = [mainPc EXCEPT !.at = "cap_clear"]
    /\ UNCHANGED <<recorderState, writer, released, lastWriterId, writerArgs,
                   lock, actualLocation, outputLocation, cfgFrameRate,
                   cfgResolution, recSession, ctlPc, dlvPc, lastCall,
                   recSignals, wlog, lastAccess, recError, sessCamera,
                   sessArraySink, sessImageCapture, sessRecorder, sessSignals,
                   camDevice, camSession, consumerSession, frameQueue,
                   consumerPc, consumerFrame, consumerLocal, switchedAway,
                   lastDelivery, sessError, sinkArray, sinkSize, icSession,
                   icImage, icCapturing, camActive, prodPc, prodQuit,
                   readyPending, consAlive, consQuit, runningCameras, lastOp,
                   lastCamCall, camSignals, camThreadOps, vidImageCapture,
                   vidRecorder, vidSink, videoFrame, protoFrame, lastSetFrame,
                   sdkCameras, videoInputs, hpPc, hpEvent, devSignals,
                   lastDefault, prodRun, lastCallback, icDlv, icDelivered,
                   devCall, inputsRef, listHeap, held, runPc, stopV,
                   lastFormat, vrState, vrWriter, vrClosed, vrLock, vrCtlPc,
                   vrDlvPc, vrAppend>>

\* self._image = None, 315
ImageCapture_capture_clear ==
    /\ mainPc.at = "cap_clear"
    /\ icImage' = NoFrame
    /\ mainPc' = [mainPc EXCEPT !.at = "cap_unflag"]
    /\ UNCHANGED <<recorderState, writer, released, lastWriterId, writerArgs,
                   lock, actualLocation, outputLocation, cfgFrameRate,
                   cfgResolution, recSession, ctlPc, dlvPc, lastCall,
                   recSignals, wlog, lastAccess, recError, sessCamera,
                   sessArraySink, sessImageCapture, sessRecorder, sessSignals,
                   camDevice, camSession, consumerSession, frameQueue,
                   consumerPc, consumerFrame, consumerLocal, switchedAway,
                   lastDelivery, sessError, sinkArray, sinkSize, icSession,
                   icCapturing, camActive, prodPc, prodQuit, readyPending,
                   consAlive, consQuit, runningCameras, lastOp, lastCamCall,
                   camSignals, camThreadOps, vidImageCapture, vidRecorder,
                   vidSink, videoFrame, protoFrame, lastSetFrame, sdkCameras,
                   videoInputs, hpPc, hpEvent, devSignals, lastDefault,
                   prodRun, lastCallback, icId, icDlv, icDelivered,
                   lastCapture, devCall, inputsRef, listHeap, held, runPc,
                   stopV, lastFormat, vrState, vrWriter, vrClosed, vrLock,
                   vrCtlPc, vrDlvPc, vrAppend>>

\* self._capturing = False; return ret, 316-317
ImageCapture_capture_return ==
    /\ mainPc.at = "cap_unflag"
    /\ icCapturing' = FALSE
    /\ lastCapture' = [lastCapture EXCEPT !.ret = lastCapture.id,
                          !.delivered = icDelivered,
                          !.quiet = (icDlv = DlvIdle)]
    /\ mainPc' = MainIdle
    /\ UNCHANGED <<recorderState, writer, released, lastWriterId, writerArgs,
                   lock, actualLocation, outputLocation, cfgFrameRate,
                   cfgResolution, recSession, ctlPc, dlvPc, lastCall,
                   recSignals, wlog, lastAccess, recError, sessCamera,
                   sessArraySink, sessImageCapture, sessRecorder, sessSignals,
                   camDevice, camSession, consumerSession, frameQueue,
                   consumerPc, consumerFrame, consumerLocal, switchedAway,
                   lastDelivery, sessError, sinkArray, sinkSize, icSession,
                   icImage, camActive, prodPc, prodQuit, readyPending,
                   consAlive, consQuit, runningCameras, lastOp, lastCamCall,
                   camSignals, camThreadOps, vidImageCapture, vidRecorder,
                   vidSink, videoFrame, protoFrame, lastSetFrame, sdkCameras,
                   videoInputs, hpPc, hpEvent, devSignals, lastDefault,
                   prodRun, lastCallback, icId, icDlv, icDelivered, devCall,
                   inputsRef, listHeap, held, runPc, stopV, lastFormat,
                   vrState, vrWriter, vrClosed, vrLock, vrCtlPc, vrDlvPc,
                   vrAppend>>

\* A session with the image capture calls imageCapture._setArray(array),
\* capture.py 141-143; _setArray: if not self._capturing, 321
ImageCapture_setArray ==
    /\ icDlv = DlvIdle
    /\ \E s \in Sessions : sessImageCapture[s] # None
    /\ icDelivered < MaxFrames
    /\ icDelivered' = icDelivered + 1
    /\ icDlv' = IF ~icCapturing
                THEN [at |-> "assign", frame |-> Image(icDelivered + 1)]
                ELSE DlvIdle
    /\ UNCHANGED <<recorderState, writer, released, lastWriterId, writerArgs,
                   lock, actualLocation, outputLocation, cfgFrameRate,
                   cfgResolution, recSession, ctlPc, dlvPc, lastCall,
                   recSignals, wlog, lastAccess, recError, sessCamera,
                   sessArraySink, sessImageCapture, sessRecorder, mainPc,
                   sessSignals, camDevice, camSession, consumerSession,
                   frameQueue, consumerPc, consumerFrame, consumerLocal,
                   switchedAway, lastDelivery, sessError, sinkArray, sinkSize,
                   icSession, icImage, icCapturing, camActive, prodPc,
                   prodQuit, readyPending, consAlive, consQuit,
                   runningCameras, lastOp, lastCamCall, camSignals,
                   camThreadOps, vidImageCapture, vidRecorder, vidSink,
                   videoFrame, protoFrame, lastSetFrame, sdkCameras,
                   videoInputs, hpPc, hpEvent, devSignals, lastDefault,
                   prodRun, lastCallback, icId, lastCapture, devCall,
                   inputsRef, listHeap, held, runPc, stopV, lastFormat,
                   vrState, vrWriter, vrClosed, vrLock, vrCtlPc, vrDlvPc,
                   vrAppend>>

\* self._image = array, 322
ImageCapture_setArray_assign ==
    /\ icDlv.at = "assign"
    /\ icImage' = icDlv.frame
    /\ icDlv' = DlvIdle
    /\ UNCHANGED <<recorderState, writer, released, lastWriterId, writerArgs,
                   lock, actualLocation, outputLocation, cfgFrameRate,
                   cfgResolution, recSession, ctlPc, dlvPc, lastCall,
                   recSignals, wlog, lastAccess, recError, sessCamera,
                   sessArraySink, sessImageCapture, sessRecorder, mainPc,
                   sessSignals, camDevice, camSession, consumerSession,
                   frameQueue, consumerPc, consumerFrame, consumerLocal,
                   switchedAway, lastDelivery, sessError, sinkArray, sinkSize,
                   icSession, icCapturing, camActive, prodPc, prodQuit,
                   readyPending, consAlive, consQuit, runningCameras, lastOp,
                   lastCamCall, camSignals, camThreadOps, vidImageCapture,
                   vidRecorder, vidSink, videoFrame, protoFrame, lastSetFrame,
                   sdkCameras, videoInputs, hpPc, hpEvent, devSignals,
                   lastDefault, prodRun, lastCallback, icId, icDelivered,
                   lastCapture, devCall, inputsRef, listHeap, held, runPc,
                   stopV, lastFormat, vrState, vrWriter, vrClosed, vrLock,
                   vrCtlPc, vrDlvPc, vrAppend>>

(***************************************************************************)
(* FrameProducer, camera.py 205-238                                        *)
(***************************************************************************)
\* run(): with self.camera: start_streaming(self.queue_frame);
\* self.ready.emit(), and then exec()
Producer_run(c) ==
    /\ prodPc[c] = "run"
    /\ prodPc' = [prodPc EXCEPT ![c] = "streaming"]
    /\ readyPending' = [readyPending EXCEPT ![c] = TRUE]
    /\ prodRun' = [prodRun EXCEPT ![c] = [NoRun EXCEPT !.reached = TRUE,
                                          !.started = TRUE, !.ready = TRUE]]
    /\ UNCHANGED <<recorderState, writer, released, lastWriterId, writerArgs,
                   lock, actualLocation, outputLocation, cfgFrameRate,
                   cfgResolution, recSession, ctlPc, dlvPc, lastCall,
                   recSignals, wlog, lastAccess, recError, sessCamera,
                   sessArraySink, sessImageCapture, sessRecorder, mainPc,
                   sessSignals, camDevice, camSession, consumerSession,
                   frameQueue, consumerPc, consumerFrame, consumerLocal,
                   switchedAway, lastDelivery, sessError, sinkArray, sinkSize,
                   icSession, icImage, icCapturing, camActive, prodQuit,
                   consAlive, consQuit, runningCameras, lastOp, lastCamCall,
                   camSignals, camThreadOps, vidImageCapture, vidRecorder,
                   vidSink, videoFrame, protoFrame, lastSetFrame, sdkCameras,
                   videoInputs, hpPc, hpEvent, devSignals, lastDefault,
                   lastCallback, icId, icDlv, icDelivered, lastCapture,
                   devCall, inputsRef, listHeap, held, runPc, stopV,
                   lastFormat, vrState, vrWriter, vrClosed, vrLock, vrCtlPc,
                   vrDlvPc, vrAppend>>

\* A run that ends without stop_streaming.
Producer_exit_leak(c) ==
    /\ prodPc[c] = "streaming"
    /\ prodQuit[c]
    /\ prodPc' = [prodPc EXCEPT ![c] = "off"]
    /\ UNCHANGED <<recorderState, writer, released, lastWriterId, writerArgs,
                   lock, actualLocation, outputLocation, cfgFrameRate,
                   cfgResolution, recSession, ctlPc, dlvPc, lastCall,
                   recSignals, wlog, lastAccess, recError, sessCamera,
                   sessArraySink, sessImageCapture, sessRecorder, mainPc,
                   sessSignals, camDevice, camSession, consumerSession,
                   frameQueue, consumerPc, consumerFrame, consumerLocal,
                   switchedAway, lastDelivery, sessError, sinkArray, sinkSize,
                   icSession, icImage, icCapturing, camActive, prodQuit,
                   readyPending, consAlive, consQuit, runningCameras, lastOp,
                   lastCamCall, camSignals, camThreadOps, vidImageCapture,
                   vidRecorder, vidSink, videoFrame, protoFrame, lastSetFrame,
                   sdkCameras, videoInputs, hpPc, hpEvent, devSignals,
                   lastDefault, prodRun, lastCallback, icId, icDlv,
                   icDelivered, lastCapture, devCall, inputsRef, listHeap,
                   held, runPc, stopV, lastFormat, vrState, vrWriter,
                   vrClosed, vrLock, vrCtlPc, vrDlvPc, vrAppend>>

\* exec() returns after quit(); finally: self.camera.stop_streaming()
Producer_exit(c) ==
    /\ prodPc[c] = "streaming"
    /\ prodQuit[c]
    /\ prodPc' = [prodPc EXCEPT ![c] = "off"]
    /\ prodRun' = [prodRun EXCEPT ![c].stopped = TRUE]
    /\ UNCHANGED <<recorderState, writer, released, lastWriterId, writerArgs,
                   lock, actualLocation, outputLocation, cfgFrameRate,
                   cfgResolution, recSession, ctlPc, dlvPc, lastCall,
                   recSignals, wlog, lastAccess, recError, sessCamera,
                   sessArraySink, sessImageCapture, sessRecorder, mainPc,
                   sessSignals, camDevice, camSession, consumerSession,
                   frameQueue, consumerPc, consumerFrame, consumerLocal,
                   switchedAway, lastDelivery, sessError, sinkArray, sinkSize,
                   icSession, icImage, icCapturing, camActive, prodQuit,
                   readyPending, consAlive, consQuit, runningCameras, lastOp,
                   lastCamCall, camSignals, camThreadOps, vidImageCapture,
                   vidRecorder, vidSink, videoFrame, protoFrame, lastSetFrame,
                   sdkCameras, videoInputs, hpPc, hpEvent, devSignals,
                   lastDefault, lastCallback, icId, icDlv, icDelivered,
                   lastCapture, devCall, inputsRef, listHeap, held, runPc,
                   stopV, lastFormat, vrState, vrWriter, vrClosed, vrLock,
                   vrCtlPc, vrDlvPc, vrAppend>>

\* Where a call into the SDK raises in run(): opening the camera
\* (with self.camera, 217), start_streaming (221), or after streaming began.
FailStages == {"open", "start_streaming", "exec"}

\* A failing run that emits ready on its way out.
Producer_fail_ready(c, stage) ==
    /\ prodPc[c] = IF stage = "exec" THEN "streaming" ELSE "run"
    /\ prodPc' = [prodPc EXCEPT ![c] = "off"]
    /\ readyPending' = [readyPending EXCEPT ![c] = TRUE]
    /\ prodRun' = [prodRun EXCEPT ![c] =
           IF stage = "open" THEN [NoRun EXCEPT !.ready = TRUE,
                                                !.failed = stage]
           ELSE IF stage = "start_streaming"
                THEN [NoRun EXCEPT !.reached = TRUE, !.ready = TRUE,
                                   !.stopped = TRUE, !.failed = stage]
                ELSE [@ EXCEPT !.stopped = TRUE, !.failed = stage]]
    /\ UNCHANGED <<recorderState, writer, released, lastWriterId, writerArgs,
                   lock, actualLocation, outputLocation, cfgFrameRate,
                   cfgResolution, recSession, ctlPc, dlvPc, lastCall,
                   recSignals, wlog, lastAccess, recError, sessCamera,
                   sessArraySink, sessImageCapture, sessRecorder, mainPc,
                   sessSignals, camDevice, camSession, consumerSession,
                   frameQueue, consumerPc, consumerFrame, consumerLocal,
                   switchedAway, lastDelivery, sessError, sinkArray, sinkSize,
                   icSession, icImage, icCapturing, camActive, prodQuit,
                   consAlive, consQuit, runningCameras, lastOp, lastCamCall,
                   camSignals, camThreadOps, vidImageCapture, vidRecorder,
                   vidSink, videoFrame, protoFrame, lastSetFrame, sdkCameras,
                   videoInputs, hpPc, hpEvent, devSignals, lastDefault,
                   lastCallback, icId, icDlv, icDelivered, lastCapture,
                   devCall, inputsRef, listHeap, held, runPc, stopV,
                   lastFormat, vrState, vrWriter, vrClosed, vrLock, vrCtlPc,
                   vrDlvPc, vrAppend>>

\* run() ends by an exception.  ready.emit() (222) follows start_streaming
\* inside the try, and the finally clause (224-226) has stop_streaming only:
\* a run that fails before line 222 ends without the ready signal.
Producer_fail(c, stage) ==
    /\ prodPc[c] = IF stage = "exec" THEN "streaming" ELSE "run"
    /\ prodPc' = [prodPc EXCEPT ![c] = "off"]
    /\ prodRun' = [prodRun EXCEPT ![c] =
           IF stage = "open" THEN [NoRun EXCEPT !.failed = stage]
           ELSE IF stage = "start_streaming"
                THEN [NoRun EXCEPT !.reached = TRUE, !.stopped = TRUE,
                                   !.failed = stage]
                ELSE [@ EXCEPT !.stopped = TRUE, !.failed = stage]]
    /\ UNCHANGED <<recorderState, writer, released, lastWriterId, writerArgs,
                   lock, actualLocation, outputLocation, cfgFrameRate,
                   cfgResolution, recSession, ctlPc, dlvPc, lastCall,
                   recSignals, wlog, lastAccess, recError, sessCamera,
                   sessArraySink, sessImageCapture, sessRecorder, mainPc,
                   sessSignals, camDevice, camSession, consumerSession,
                   frameQueue, consumerPc, consumerFrame, consumerLocal,
                   switchedAway, lastDelivery, sessError, sinkArray, sinkSize,
                   icSession, icImage, icCapturing, camActive, prodQuit,
                   readyPending, consAlive, consQuit, runningCameras, lastOp,
                   lastCamCall, camSignals, camThreadOps, vidImageCapture,
                   vidRecorder, vidSink, videoFrame, protoFrame, lastSetFrame,
                   sdkCameras, videoInputs, hpPc, hpEvent, devSignals,
                   lastDefault, lastCallback, icId, icDlv, icDelivered,
                   lastCapture, devCall, inputsRef, listHeap, held, runPc,
                   stopV, lastFormat, vrState, vrWriter, vrClosed, vrLock,
                   vrCtlPc, vrDlvPc, vrAppend>>

\* self._frameQueue = queue.Queue(), camera.py 70: maxsize is 0, and a
\* maxsize that is not positive makes the queue infinite.
QueueMaxSize == 0

\* self.queue.full(), camera.py 232
full(c) == QueueMaxSize > 0 /\ Len(frameQueue[c]) >= QueueMaxSize

Range(seq) == {seq[i] : i \in 1..Len(seq)}

\* What queue_frame does with the frame and its SDK buffer, in order:
\* copy.deepcopy(frame), 234; self.queue.put_nowait(copied_frame), 235;
\* camera.queue_frame(frame), which gives the buffer back to the SDK, 238.
CallbackOps(c, status) ==
    IF status = "Complete" /\ ~full(c)
    THEN <<"deepcopy", "put_nowait", "camera.queue_frame">>
    ELSE <<"camera.queue_frame">>

\* A callback that queues a frame whatever its status.
Producer_queue_frame_any(c, status, size) ==
    /\ prodPc[c] = "streaming"
    /\ Len(frameQueue[c]) < MaxQueue
    /\ frameQueue' = [frameQueue EXCEPT ![c] = Append(@, Frame(c, size))]
    /\ lastCallback' = [cam |-> c, status |-> status,
                        ops |-> CallbackOps(c, status)]
    /\ UNCHANGED <<recorderState, writer, released, lastWriterId, writerArgs,
                   lock, actualLocation, outputLocation, cfgFrameRate,
                   cfgResolution, recSession, ctlPc, dlvPc, lastCall,
                   recSignals, wlog, lastAccess, recError, sessCamera,
                   sessArraySink, sessImageCapture, sessRecorder, mainPc,
                   sessSignals, camDevice, camSession, consumerSession,
                   consumerPc, consumerFrame, consumerLocal, switchedAway,
                   lastDelivery, sessError, sinkArray, sinkSize, icSession,
                   icImage, icCapturing, camActive, prodPc, prodQuit,
                   readyPending, consAlive, consQuit, runningCameras, lastOp,
                   lastCamCall, camSignals, camThreadOps, vidImageCapture,
                   vidRecorder, vidSink, videoFrame, protoFrame, lastSetFrame,
                   sdkCameras, videoInputs, hpPc, hpEvent, devSignals,
                   lastDefault, prodRun, icId, icDlv, icDelivered,
                   lastCapture, devCall, inputsRef, listHeap, held, runPc,
                   stopV, lastFormat, vrState, vrWriter, vrClosed, vrLock,
                   vrCtlPc, vrDlvPc, vrAppend>>

\* queue_frame: the callback of the streaming camera, camera.py 230-238.
\* queue.Queue() has no maximum size; MaxQueue bounds the model.
Producer_queue_frame(c, status, size) ==
    /\ prodPc[c] = "streaming"
    /\ Len(frameQueue[c]) < MaxQueue
    /\ frameQueue' = IF "put_nowait" \in Range(CallbackOps(c, status))
                     THEN [frameQueue EXCEPT ![c] = Append(@, Frame(c, size))]
                     ELSE frameQueue
    /\ lastCallback' = [cam |-> c, status |-> status,
                        ops |-> CallbackOps(c, status)]
    /\ UNCHANGED <<recorderState, writer, released, lastWriterId, writerArgs,
                   lock, actualLocation, outputLocation, cfgFrameRate,
                   cfgResolution, recSession, ctlPc, dlvPc, lastCall,
                   recSignals, wlog, lastAccess, recError, sessCamera,
                   sessArraySink, sessImageCapture, sessRecorder, mainPc,
                   sessSignals, camDevice, camSession, consumerSession,
                   consumerPc, consumerFrame, consumerLocal, switchedAway,
                   lastDelivery, sessError, sinkArray, sinkSize, icSession,
                   icImage, icCapturing, camActive, prodPc, prodQuit,
                   readyPending, consAlive, consQuit, runningCameras, lastOp,
                   lastCamCall, camSignals, camThreadOps, vidImageCapture,
                   vidRecorder, vidSink, videoFrame, protoFrame, lastSetFrame,
                   sdkCameras, videoInputs, hpPc, hpEvent, devSignals,
                   lastDefault, prodRun, icId, icDlv, icDelivered,
                   lastCapture, devCall, inputsRef, listHeap, held, runPc,
                   stopV, lastFormat, vrState, vrWriter, vrClosed, vrLock,
                   vrCtlPc, vrDlvPc, vrAppend>>

(***************************************************************************)
(* FrameConsumer, camera.py 241-274, in the thread _consumerThread         *)
(***************************************************************************)
\* The thread runs the slot connected to started: run(): self.alive = True
Consumer_run(c) ==
    /\ consumerPc[c] = "started"
    /\ consAlive' = [consAlive EXCEPT ![c] = TRUE]
    /\ consumerPc' = [consumerPc EXCEPT ![c] = "get"]
    /\ UNCHANGED <<recorderState, writer, released, lastWriterId, writerArgs,
                   lock, actualLocation, outputLocation, cfgFrameRate,
                   cfgResolution, recSession, ctlPc, dlvPc, lastCall,
                   recSignals, wlog, lastAccess, recError, sessCamera,
                   sessArraySink, sessImageCapture, sessRecorder, mainPc,
                   sessSignals, camDevice, camSession, consumerSession,
                   frameQueue, consumerFrame, consumerLocal, switchedAway,
                   lastDelivery, sessError, sinkArray, sinkSize, icSession,
                   icImage, icCapturing, camActive, prodPc, prodQuit,
                   readyPending, consQuit, runningCameras, lastOp,
                   lastCamCall, camSignals, camThreadOps, vidImageCapture,
                   vidRecorder, vidSink, videoFrame, protoFrame, lastSetFrame,
                   sdkCameras, videoInputs, hpPc, hpEvent, devSignals,
                   lastDefault, prodRun, lastCallback, icId, icDlv,
                   icDelivered, lastCapture, devCall, inputsRef, listHeap,
                   held, runPc, stopV, lastFormat, vrState, vrWriter,
                   vrClosed, vrLock, vrCtlPc, vrDlvPc, vrAppend>>

\* A consumer that takes the newest frame of the queue.
Consumer_get_lifo(c) ==
    /\ consumerPc[c] = "get"
    /\ consAlive[c]
    /\ frameQueue[c] # <<>>
    /\ consumerFrame' = [consumerFrame EXCEPT ![c] =
                             frameQueue[c][Len(frameQueue[c])]]
    /\ frameQueue' = [frameQueue EXCEPT ![c] = SubSeq(@, 1, Len(@) - 1)]
    /\ consumerLocal' = [consumerLocal EXCEPT ![c] = consumerSession[c]]
    /\ consumerPc' = [consumerPc EXCEPT ![c] = "forward"]
    /\ UNCHANGED <<recorderState, writer, released, lastWriterId, writerArgs,
                   lock, actualLocation, outputLocation, cfgFrameRate,
                   cfgResolution, recSession, ctlPc, dlvPc, lastCall,
                   recSignals, wlog, lastAccess, recError, sessCamera,
                   sessArraySink, sessImageCapture, sessRecorder, mainPc,
                   sessSignals, camDevice, camSession, consumerSession,
                   switchedAway, lastDelivery, sessError, sinkArray, sinkSize,
                   icSession, icImage, icCapturing, camActive, prodPc,
                   prodQuit, readyPending, consAlive, consQuit,
                   runningCameras, lastOp, lastCamCall, camSignals,
                   camThreadOps, vidImageCapture, vidRecorder, vidSink,
                   videoFrame, protoFrame, lastSetFrame, sdkCameras,
                   videoInputs, hpPc, hpEvent, devSignals, lastDefault,
                   prodRun, lastCallback, icId, icDlv, icDelivered,
                   lastCapture, devCall, inputsRef, listHeap, held, runPc,
                   stopV, lastFormat, vrState, vrWriter, vrClosed, vrLock,
                   vrCtlPc, vrDlvPc, vrAppend>>

\* while self.alive: self.frame = self.queue.get_nowait();
\* cv_img = ...copy(); session = self.captureSession
Consumer_get(c) ==
    /\ consumerPc[c] = "get"
    /\ consAlive[c]
    /\ frameQueue[c] # <<>>
    /\ consumerFrame' = [consumerFrame EXCEPT ![c] = Head(frameQueue[c])]
    /\ frameQueue' = [frameQueue EXCEPT ![c] = Tail(@)]
    /\ consumerLocal' = [consumerLocal EXCEPT ![c] = consumerSession[c]]
    /\ consumerPc' = [consumerPc EXCEPT ![c] = "forward"]
    /\ UNCHANGED <<recorderState, writer, released, lastWriterId, writerArgs,
                   lock, actualLocation, outputLocation, cfgFrameRate,
                   cfgResolution, recSession, ctlPc, dlvPc, lastCall,
                   recSignals, wlog, lastAccess, recError, sessCamera,
                   sessArraySink, sessImageCapture, sessRecorder, mainPc,
                   sessSignals, camDevice, camSession, consumerSession,
                   switchedAway, lastDelivery, sessError, sinkArray, sinkSize,
                   icSession, icImage, icCapturing, camActive, prodPc,
                   prodQuit, readyPending, consAlive, consQuit,
                   runningCameras, lastOp, lastCamCall, camSignals,
                   camThreadOps, vidImageCapture, vidRecorder, vidSink,
                   videoFrame, protoFrame, lastSetFrame, sdkCameras,
                   videoInputs, hpPc, hpEvent, devSignals, lastDefault,
                   prodRun, lastCallback, icId, icDlv, icDelivered,
                   lastCapture, devCall, inputsRef, listHeap, held, runPc,
                   stopV, lastFormat, vrState, vrWriter, vrClosed, vrLock,
                   vrCtlPc, vrDlvPc, vrAppend>>

\* if session is not None: session._setArray(cv_img)
Consumer_forward(c) ==
    /\ consumerPc[c] = "forward"
    /\ IF consumerLocal[c] # None
       THEN /\ Session_setArray(consumerLocal[c], consumerFrame[c])
            /\ consumerPc' = [consumerPc EXCEPT ![c] =
                   IF HasRecorder(consumerLocal[c])
                      /\ sessRecorder[consumerLocal[c]] # None
                   THEN "recorder" ELSE "get"]
       ELSE /\ lastDelivery' = [NoDelivery EXCEPT !.cam = c,
                                  !.size = consumerFrame[c].size,
                                  !.after = consumerFrame[c].after]
            /\ consumerPc' = [consumerPc EXCEPT ![c] = "get"]
            /\ UNCHANGED <<sinkArray, sinkSize, icImage, sessError>>
    /\ consumerFrame' = [consumerFrame EXCEPT ![c] = Pixels(@)]
    /\ consumerLocal' = [consumerLocal EXCEPT ![c] = None]
    /\ UNCHANGED <<recorderState, writer, released, lastWriterId, writerArgs,
                   lock, actualLocation, outputLocation, cfgFrameRate,
                   cfgResolution, recSession, ctlPc, dlvPc, lastCall,
                   recSignals, wlog, lastAccess, recError, sessCamera,
                   sessArraySink, sessImageCapture, sessRecorder, mainPc,
                   sessSignals, camDevice, camSession, consumerSession,
                   frameQueue, switchedAway, icSession, icCapturing,
                   camActive, prodPc, prodQuit, readyPending, consAlive,
                   consQuit, runningCameras, lastOp, lastCamCall, camSignals,
                   camThreadOps, vidImageCapture, vidRecorder, vidSink,
                   videoFrame, protoFrame, lastSetFrame, sdkCameras,
                   videoInputs, hpPc, hpEvent, devSignals, lastDefault,
                   prodRun, lastCallback, icId, icDlv, icDelivered,
                   lastCapture, devCall, inputsRef, listHeap, held, runPc,
                   stopV, lastFormat, vrState, vrWriter, vrClosed, vrLock,
                   vrCtlPc, vrDlvPc, vrAppend>>

\* recorder._setArray(array), capture.py 146: self._lock.lock(), 528
Consumer_recorder(c) ==
    /\ consumerPc[c] = "recorder"
    /\ dlvPc = "idle"
    /\ lock = "free"
    /\ lock' = "dlv"
    /\ dlvPc' = "d_check"
    /\ consumerPc' = [consumerPc EXCEPT ![c] = "in_recorder"]
    /\ UNCHANGED <<recorderState, writer, released, lastWriterId, writerArgs,
                   actualLocation, outputLocation, cfgFrameRate,
                   cfgResolution, recSession, ctlPc, lastCall, recSignals,
                   wlog, lastAccess, recError, sessCamera, sessArraySink,
                   sessImageCapture, sessRecorder, mainPc, sessSignals,
                   camDevice, camSession, consumerSession, frameQueue,
                   consumerFrame, consumerLocal, switchedAway, lastDelivery,
                   sessError, sinkArray, sinkSize, icSession, icImage,
                   icCapturing, camActive, prodPc, prodQuit, readyPending,
                   consAlive, consQuit, runningCameras, lastOp, lastCamCall,
                   camSignals, camThreadOps, vidImageCapture, vidRecorder,
                   vidSink, videoFrame, protoFrame, lastSetFrame, sdkCameras,
                   videoInputs, hpPc, hpEvent, devSignals, lastDefault,
                   prodRun, lastCallback, icId, icDlv, icDelivered,
                   lastCapture, devCall, inputsRef, listHeap, held, runPc,
                   stopV, lastFormat, vrState, vrWriter, vrClosed, vrLock,
                   vrCtlPc, vrDlvPc, vrAppend>>

\* recorder._setArray has returned
Consumer_recorder_done(c) ==
    /\ consumerPc[c] = "in_recorder"
    /\ dlvPc = "idle"
    /\ consumerPc' = [consumerPc EXCEPT ![c] = "get"]
    /\ UNCHANGED <<recorderState, writer, released, lastWriterId, writerArgs,
                   lock, actualLocation, outputLocation, cfgFrameRate,
                   cfgResolution, recSession, ctlPc, dlvPc, lastCall,
                   recSignals, wlog, lastAccess, recError, sessCamera,
                   sessArraySink, sessImageCapture, sessRecorder, mainPc,
                   sessSignals, camDevice, camSession, consumerSession,
                   frameQueue, consumerFrame, consumerLocal, switchedAway,
                   lastDelivery, sessError, sinkArray, sinkSize, icSession,
                   icImage, icCapturing, camActive, prodPc, prodQuit,
                   readyPending, consAlive, consQuit, runningCameras, lastOp,
                   lastCamCall, camSignals, camThreadOps, vidImageCapture,
                   vidRecorder, vidSink, videoFrame, protoFrame, lastSetFrame,
                   sdkCameras, videoInputs, hpPc, hpEvent, devSignals,
                   lastDefault, prodRun, lastCallback, icId, icDlv,
                   icDelivered, lastCapture, devCall, inputsRef, listHeap,
                   held, runPc, stopV, lastFormat, vrState, vrWriter,
                   vrClosed, vrLock, vrCtlPc, vrDlvPc, vrAppend>>

\* while self.alive ends: run() returns to the event loop of the thread
Consumer_return(c) ==
    /\ consumerPc[c] = "get"
    /\ ~consAlive[c]
    /\ consumerPc' = [consumerPc EXCEPT ![c] = "returned"]
    /\ UNCHANGED <<recorderState, writer, released, lastWriterId, writerArgs,
                   lock, actualLocation, outputLocation, cfgFrameRate,
                   cfgResolution, recSession, ctlPc, dlvPc, lastCall,
                   recSignals, wlog, lastAccess, recError, sessCamera,
                   sessArraySink, sessImageCapture, sessRecorder, mainPc,
                   sessSignals, camDevice, camSession, consumerSession,
                   frameQueue, consumerFrame, consumerLocal, switchedAway,
                   lastDelivery, sessError, sinkArray, sinkSize, icSession,
                   icImage, icCapturing, camActive, prodPc, prodQuit,
                   readyPending, consAlive, consQuit, runningCameras, lastOp,
                   lastCamCall, camSignals, camThreadOps, vidImageCapture,
                   vidRecorder, vidSink, videoFrame, protoFrame, lastSetFrame,
                   sdkCameras, videoInputs, hpPc, hpEvent, devSignals,
                   lastDefault, prodRun, lastCallback, icId, icDlv,
                   icDelivered, lastCapture, devCall, inputsRef, listHeap,
                   held, runPc, stopV, lastFormat, vrState, vrWriter,
                   vrClosed, vrLock, vrCtlPc, vrDlvPc, vrAppend>>

\* The event loop of the thread ends after quit(), and the thread with it.
Consumer_exit(c) ==
    /\ consumerPc[c] \in {"started", "returned"}
    /\ consQuit[c]
    /\ consumerPc' = [consumerPc EXCEPT ![c] = "off"]
    /\ UNCHANGED <<recorderState, writer, released, lastWriterId, writerArgs,
                   lock, actualLocation, outputLocation, cfgFrameRate,
                   cfgResolution, recSession, ctlPc, dlvPc, lastCall,
                   recSignals, wlog, lastAccess, recError, sessCamera,
                   sessArraySink, sessImageCapture, sessRecorder, mainPc,
                   sessSignals, camDevice, camSession, consumerSession,
                   frameQueue, consumerFrame, consumerLocal, switchedAway,
                   lastDelivery, sessError, sinkArray, sinkSize, icSession,
                   icImage, icCapturing, camActive, prodPc, prodQuit,
                   readyPending, consAlive, consQuit, runningCameras, lastOp,
                   lastCamCall, camSignals, camThreadOps, vidImageCapture,
                   vidRecorder, vidSink, videoFrame, protoFrame, lastSetFrame,
                   sdkCameras, videoInputs, hpPc, hpEvent, devSignals,
                   lastDefault, prodRun, lastCallback, icId, icDlv,
                   icDelivered, lastCapture, devCall, inputsRef, listHeap,
                   held, runPc, stopV, lastFormat, vrState, vrWriter,
                   vrClosed, vrLock, vrCtlPc, vrDlvPc, vrAppend>>

(***************************************************************************)
(* VimbaCamera.setActive, camera.py 150-184; start() and stop(), 186-202   *)
(***************************************************************************)
\* An isAvailable() that is true of every camera.
isAvailable_always(c) == TRUE

\* isAvailable(), camera.py 111-113
isAvailable(c) == camDevice[c] # NullDevice

CamCalled(op, c) ==
    [op |-> op, cam |-> c, active |-> camActive[c], running |-> runningCameras]

\* start(): setActive(True) up to the branch taken
Camera_start(c) ==
    /\ Idle
    /\ lastOp' = [lastOp EXCEPT ![c] = "start"]
    /\ lastCamCall' = CamCalled("start", c)
    /\ camSignals' = <<>>
    /\ camThreadOps' = <<>>
    /\ mainPc' = IF isAvailable(c) /\ ~camActive[c]
                 THEN [at |-> "start_consumer", s |-> None, c |-> c]
                 ELSE MainIdle
    /\ UNCHANGED <<recorderState, writer, released, lastWriterId, writerArgs,
                   lock, actualLocation, outputLocation, cfgFrameRate,
                   cfgResolution, recSession, ctlPc, dlvPc, lastCall,
                   recSignals, wlog, lastAccess, recError, sessCamera,
                   sessArraySink, sessImageCapture, sessRecorder, sessSignals,
                   camDevice, camSession, consumerSession, frameQueue,
                   consumerPc, consumerFrame, consumerLocal, switchedAway,
                   lastDelivery, sessError, sinkArray, sinkSize, icSession,
                   icImage, icCapturing, camActive, prodPc, prodQuit,
                   readyPending, consAlive, consQuit, runningCameras,
                   vidImageCapture, vidRecorder, vidSink, videoFrame,
                   protoFrame, lastSetFrame, sdkCameras, videoInputs, hpPc,
                   hpEvent, devSignals, lastDefault, prodRun, lastCallback,
                   icId, icDlv, icDelivered, lastCapture, devCall, inputsRef,
                   listHeap, held, runPc, stopV, lastFormat, vrState,
                   vrWriter, vrClosed, vrLock, vrCtlPc, vrDlvPc, vrAppend>>

\* self._consumerThread.start(), 165
Camera_start_consumer ==
    /\ mainPc.at = "start_consumer"
    /\ LET c == mainPc.c IN
         /\ consumerPc' = IF consumerPc[c] = "off"
                          THEN [consumerPc EXCEPT ![c] = "started"]
                          ELSE consumerPc
         /\ consQuit' = IF consumerPc[c] = "off"
                        THEN [consQuit EXCEPT ![c] = FALSE]
                        ELSE consQuit
    /\ camThreadOps' = Append(camThreadOps, "consumerThread.start")
    /\ mainPc' = [mainPc EXCEPT !.at = "start_producer"]
    /\ UNCHANGED <<recorderState, writer, released, lastWriterId, writerArgs,
                   lock, actualLocation, outputLocation, cfgFrameRate,
                   cfgResolution, recSession, ctlPc, dlvPc, lastCall,
                   recSignals, wlog, lastAccess, recError, sessCamera,
                   sessArraySink, sessImageCapture, sessRecorder, sessSignals,
                   camDevice, camSession, consumerSession, frameQueue,
                   consumerFrame, consumerLocal, switchedAway, lastDelivery,
                   sessError, sinkArray, sinkSize, icSession, icImage,
                   icCapturing, camActive, prodPc, prodQuit, readyPending,
                   consAlive, runningCameras, lastOp, lastCamCall, camSignals,
                   vidImageCapture, vidRecorder, vidSink, videoFrame,
                   protoFrame, lastSetFrame, sdkCameras, videoInputs, hpPc,
                   hpEvent, devSignals, lastDefault, prodRun, lastCallback,
                   icId, icDlv, icDelivered, lastCapture, devCall, inputsRef,
                   listHeap, held, runPc, stopV, lastFormat, vrState,
                   vrWriter, vrClosed, vrLock, vrCtlPc, vrDlvPc, vrAppend>>

\* self._frameProducer.start(), 166
Camera_start_producer ==
    /\ mainPc.at = "start_producer"
    /\ LET c == mainPc.c IN
         /\ prodPc' = IF prodPc[c] = "off"
                      THEN [prodPc EXCEPT ![c] = "run"]
                      ELSE prodPc
         /\ prodQuit' = IF prodPc[c] = "off"
                        THEN [prodQuit EXCEPT ![c] = FALSE]
                        ELSE prodQuit
         /\ prodRun' = IF prodPc[c] = "off"
                       THEN [prodRun EXCEPT ![c] = NoRun]
                       ELSE prodRun
    /\ camThreadOps' = Append(camThreadOps, "frameProducer.start")
    /\ mainPc' = [mainPc EXCEPT !.at = "wait_ready"]
    /\ UNCHANGED <<recorderState, writer, released, lastWriterId, writerArgs,
                   lock, actualLocation, outputLocation, cfgFrameRate,
                   cfgResolution, recSession, ctlPc, dlvPc, lastCall,
                   recSignals, wlog, lastAccess, recError, sessCamera,
                   sessArraySink, sessImageCapture, sessRecorder, sessSignals,
                   camDevice, camSession, consumerSession, frameQueue,
                   consumerPc, consumerFrame, consumerLocal, switchedAway,
                   lastDelivery, sessError, sinkArray, sinkSize, icSession,
                   icImage, icCapturing, camActive, readyPending, consAlive,
                   consQuit, runningCameras, lastOp, lastCamCall, camSignals,
                   vidImageCapture, vidRecorder, vidSink, videoFrame,
                   protoFrame, lastSetFrame, sdkCameras, videoInputs, hpPc,
                   hpEvent, devSignals, lastDefault, lastCallback, icId,
                   icDlv, icDelivered, lastCapture, devCall, inputsRef,
                   listHeap, held, runPc, stopV, lastFormat, vrState,
                   vrWriter, vrClosed, vrLock, vrCtlPc, vrDlvPc, vrAppend>>

\* self._waitProducerReady.exec() returns on the ready signal;
\* runner._runningCameras.append(self); self._active = True;
\* self.activeChanged.emit(active), 167-170
Camera_start_ready ==
    /\ mainPc.at = "wait_ready"
    /\ LET c == mainPc.c IN
         /\ readyPending[c]
         /\ readyPending' = [readyPending EXCEPT ![c] = FALSE]
         /\ runningCameras' = Append(runningCameras, c)
         /\ camActive' = [camActive EXCEPT ![c] = TRUE]
         /\ camSignals' = Append(camSignals, <<"activeChanged", TRUE>>)
    /\ mainPc' = MainIdle
    /\ UNCHANGED <<recorderState, writer, released, lastWriterId, writerArgs,
                   lock, actualLocation, outputLocation, cfgFrameRate,
                   cfgResolution, recSession, ctlPc, dlvPc, lastCall,
                   recSignals, wlog, lastAccess, recError, sessCamera,
                   sessArraySink, sessImageCapture, sessRecorder, sessSignals,
                   camDevice, camSession, consumerSession, frameQueue,
                   consumerPc, consumerFrame, consumerLocal, switchedAway,
                   lastDelivery, sessError, sinkArray, sinkSize, icSession,
                   icImage, icCapturing, prodPc, prodQuit, consAlive,
                   consQuit, lastOp, lastCamCall, camThreadOps,
                   vidImageCapture, vidRecorder, vidSink, videoFrame,
                   protoFrame, lastSetFrame, sdkCameras, videoInputs, hpPc,
                   hpEvent, devSignals, lastDefault, prodRun, lastCallback,
                   icId, icDlv, icDelivered, lastCapture, devCall, inputsRef,
                   listHeap, held, runPc, stopV, lastFormat, vrState,
                   vrWriter, vrClosed, vrLock, vrCtlPc, vrDlvPc, vrAppend>>

\* A stop() without the test of isActive(): it stops the threads again.
Camera_stop_unguarded(c) ==
    /\ Idle
    /\ lastOp' = [lastOp EXCEPT ![c] = "stop"]
    /\ lastCamCall' = CamCalled("stop", c)
    /\ camSignals' = <<>>
    /\ IF isAvailable(c)
       THEN /\ prodQuit' = [prodQuit EXCEPT ![c] = TRUE]
            /\ camThreadOps' = <<"frameProducer.quit">>
            /\ mainPc' = [at |-> "stop_wait_producer", s |-> None, c |-> c]
       ELSE /\ camThreadOps' = <<>>
            /\ mainPc' = MainIdle
            /\ UNCHANGED prodQuit
    /\ UNCHANGED <<recorderState, writer, released, lastWriterId, writerArgs,
                   lock, actualLocation, outputLocation, cfgFrameRate,
                   cfgResolution, recSession, ctlPc, dlvPc, lastCall,
                   recSignals, wlog, lastAccess, recError, sessCamera,
                   sessArraySink, sessImageCapture, sessRecorder, sessSignals,
                   camDevice, camSession, consumerSession, frameQueue,
                   consumerPc, consumerFrame, consumerLocal, switchedAway,
                   lastDelivery, sessError, sinkArray, sinkSize, icSession,
                   icImage, icCapturing, camActive, prodPc, readyPending,
                   consAlive, consQuit, runningCameras, vidImageCapture,
                   vidRecorder, vidSink, videoFrame, protoFrame, lastSetFrame,
                   sdkCameras, videoInputs, hpPc, hpEvent, devSignals,
                   lastDefault, prodRun, lastCallback, icId, icDlv,
                   icDelivered, lastCapture, devCall, inputsRef, listHeap,
                   held, runPc, stopV, lastFormat, vrState, vrWriter,
                   vrClosed, vrLock, vrCtlPc, vrDlvPc, vrAppend>>

\* stop(): setActive(False) up to the branch taken;
\* self._frameProducer.quit(), 174
Camera_stop(c) ==
    /\ Idle
    /\ lastOp' = [lastOp EXCEPT ![c] = "stop"]
    /\ lastCamCall' = CamCalled("stop", c)
    /\ camSignals' = <<>>
    /\ IF isAvailable(c) /\ camActive[c]
       THEN /\ prodQuit' = [prodQuit EXCEPT ![c] = TRUE]
            /\ camThreadOps' = <<"frameProducer.quit">>
            /\ mainPc' = [at |-> "stop_wait_producer", s |-> None, c |-> c]
       ELSE /\ camThreadOps' = <<>>
            /\ mainPc' = MainIdle
            /\ UNCHANGED prodQuit
    /\ UNCHANGED <<recorderState, writer, released, lastWriterId, writerArgs,
                   lock, actualLocation, outputLocation, cfgFrameRate,
                   cfgResolution, recSession, ctlPc, dlvPc, lastCall,
                   recSignals, wlog, lastAccess, recError, sessCamera,
                   sessArraySink, sessImageCapture, sessRecorder, sessSignals,
                   camDevice, camSession, consumerSession, frameQueue,
                   consumerPc, consumerFrame, consumerLocal, switchedAway,
                   lastDelivery, sessError, sinkArray, sinkSize, icSession,
                   icImage, icCapturing, camActive, prodPc, readyPending,
                   consAlive, consQuit, runningCameras, vidImageCapture,
                   vidRecorder, vidSink, videoFrame, protoFrame, lastSetFrame,
                   sdkCameras, videoInputs, hpPc, hpEvent, devSignals,
                   lastDefault, prodRun, lastCallback, icId, icDlv,
                   icDelivered, lastCapture, devCall, inputsRef, listHeap,
                   held, runPc, stopV, lastFormat, vrState, vrWriter,
                   vrClosed, vrLock, vrCtlPc, vrDlvPc, vrAppend>>

\* self._frameProducer.wait() returns when the producer thread has ended;
\* self._frameConsumer.stop(): self.alive = False, 175-176
Camera_stop_consumer ==
    /\ mainPc.at = "stop_wait_producer"
    /\ LET c == mainPc.c IN
         /\ prodPc[c] = "off"
         /\ consAlive' = [consAlive EXCEPT ![c] = FALSE]
    /\ camThreadOps' = Append(camThreadOps, "frameProducer.wait")
    /\ mainPc' = [mainPc EXCEPT !.at = "stop_quit_consumer"]
    /\ UNCHANGED <<recorderState, writer, released, lastWriterId, writerArgs,
                   lock, actualLocation, outputLocation, cfgFrameRate,
                   cfgResolution, recSession, ctlPc, dlvPc, lastCall,
                   recSignals, wlog, lastAccess, recError, sessCamera,
                   sessArraySink, sessImageCapture, sessRecorder, sessSignals,
                   camDevice, camSession, consumerSession, frameQueue,
                   consumerPc, consumerFrame, consumerLocal, switchedAway,
                   lastDelivery, sessError, sinkArray, sinkSize, icSession,
                   icImage, icCapturing, camActive, prodPc, prodQuit,
                   readyPending, consQuit, runningCameras, lastOp,
                   lastCamCall, camSignals, vidImageCapture, vidRecorder,
                   vidSink, videoFrame, protoFrame, lastSetFrame, sdkCameras,
                   videoInputs, hpPc, hpEvent, devSignals, lastDefault,
                   prodRun, lastCallback, icId, icDlv, icDelivered,
                   lastCapture, devCall, inputsRef, listHeap, held, runPc,
                   stopV, lastFormat, vrState, vrWriter, vrClosed, vrLock,
                   vrCtlPc, vrDlvPc, vrAppend>>

\* self._consumerThread.quit(), 177
Camera_stop_quit ==
    /\ mainPc.at = "stop_quit_consumer"
    /\ consQuit' = [consQuit EXCEPT ![mainPc.c] = TRUE]
    /\ camThreadOps' = Append(camThreadOps, "consumerThread.quit")
    /\ mainPc' = [mainPc EXCEPT !.at = "stop_wait_consumer"]
    /\ UNCHANGED <<recorderState, writer, released, lastWriterId, writerArgs,
                   lock, actualLocation, outputLocation, cfgFrameRate,
                   cfgResolution, recSession, ctlPc, dlvPc, lastCall,
                   recSignals, wlog, lastAccess, recError, sessCamera,
                   sessArraySink, sessImageCapture, sessRecorder, sessSignals,
                   camDevice, camSession, consumerSession, frameQueue,
                   consumerPc, consumerFrame, consumerLocal, switchedAway,
                   lastDelivery, sessError, sinkArray, sinkSize, icSession,
                   icImage, icCapturing, camActive, prodPc, prodQuit,
                   readyPending, consAlive, runningCameras, lastOp,
                   lastCamCall, camSignals, vidImageCapture, vidRecorder,
                   vidSink, videoFrame, protoFrame, lastSetFrame, sdkCameras,
                   videoInputs, hpPc, hpEvent, devSignals, lastDefault,
                   prodRun, lastCallback, icId, icDlv, icDelivered,
                   lastCapture, devCall, inputsRef, listHeap, held, runPc,
                   stopV, lastFormat, vrState, vrWriter, vrClosed, vrLock,
                   vrCtlPc, vrDlvPc, vrAppend>>

\* A remove() that leaves the list as it is.
Remove_keep(seq, x) == seq

\* runner._runningCameras.remove(self), 179-182: the first occurrence
Remove(seq, c) ==
    IF \E i \in 1..Len(seq) : seq[i] = c
    THEN LET k == CHOOSE i \in 1..Len(seq) :
                     seq[i] = c /\ \A j \in 1..(i - 1) : seq[j] # c
         IN  [i \in 1..(Len(seq) - 1) |-> IF i < k THEN seq[i] ELSE seq[i + 1]]
    ELSE seq

\* self._consumerThread.wait() returns when the consumer thread has ended;
\* runner._runningCameras.remove(self); self._active = False;
\* self.activeChanged.emit(active), 178-184
Camera_stop_done ==
    /\ mainPc.at = "stop_wait_consumer"
    /\ LET c == mainPc.c IN
         /\ consumerPc[c] = "off"
         /\ runningCameras' = Remove(runningCameras, c)
         /\ camActive' = [camActive EXCEPT ![c] = FALSE]
    /\ camThreadOps' = Append(camThreadOps, "consumerThread.wait")
    /\ camSignals' = Append(camSignals, <<"activeChanged", FALSE>>)
    /\ mainPc' = MainIdle
    /\ UNCHANGED <<recorderState, writer, released, lastWriterId, writerArgs,
                   lock, actualLocation, outputLocation, cfgFrameRate,
                   cfgResolution, recSession, ctlPc, dlvPc, lastCall,
                   recSignals, wlog, lastAccess, recError, sessCamera,
                   sessArraySink, sessImageCapture, sessRecorder, sessSignals,
                   camDevice, camSession, consumerSession, frameQueue,
                   consumerPc, consumerFrame, consumerLocal, switchedAway,
                   lastDelivery, sessError, sinkArray, sinkSize, icSession,
                   icImage, icCapturing, prodPc, prodQuit, readyPending,
                   consAlive, consQuit, lastOp, lastCamCall, vidImageCapture,
                   vidRecorder, vidSink, videoFrame, protoFrame, lastSetFrame,
                   sdkCameras, videoInputs, hpPc, hpEvent, devSignals,
                   lastDefault, prodRun, lastCallback, icId, icDlv,
                   icDelivered, lastCapture, devCall, inputsRef, listHeap,
                   held, runPc, stopV, lastFormat, vrState, vrWriter,
                   vrClosed, vrLock, vrCtlPc, vrDlvPc, vrAppend>>

(***************************************************************************)
(* The capture session that feeds a QVideoSink: VimbaCaptureSession2 of    *)
(* capture2.py, and VimbaCaptureSession of src/civiq6/capture.py, which    *)
(* has a recorder as well.                                                 *)
(***************************************************************************)
VimbaFormats == {"Mono8", "Mono16", "Mono10", "Bgr8"}

\* COMPATIBLE_FORMATS.get(frame.get_pixel_format(), Format_Invalid)
COMPATIBLE_FORMATS(fmt) ==
    CASE fmt = "Mono8"  -> "Format_Y8"
      [] fmt = "Mono16" -> "Format_Y16"
      [] OTHER          -> "Format_Invalid"

\* The buffers of the frames; NoData is a QVideoFrame nothing was copied into.
FrameData == {1, 2}

NoData == 0

NoVideoFrame == [format |-> "none", data |-> NoData]

NoSetFrame == [fmt |-> "none", data |-> NoData, calls |-> <<>>]

VidInit ==
    /\ vidImageCapture = None
    /\ vidRecorder = None
    /\ vidSink = None
    /\ videoFrame = NoVideoFrame
    /\ protoFrame = [imageCapture |-> NoData, recorder |-> NoData]
    /\ lastSetFrame = NoSetFrame

\* setVideoSink, capture2.py 87-88
VideoSession_setVideoSink(sink) ==
    /\ Idle
    /\ vidSink' = sink
    /\ UNCHANGED <<recorderState, writer, released, lastWriterId, writerArgs,
                   lock, actualLocation, outputLocation, cfgFrameRate,
                   cfgResolution, recSession, ctlPc, dlvPc, lastCall,
                   recSignals, wlog, lastAccess, recError, sessCamera,
                   sessArraySink, sessImageCapture, sessRecorder, mainPc,
                   sessSignals, camDevice, camSession, consumerSession,
                   frameQueue, consumerPc, consumerFrame, consumerLocal,
                   switchedAway, lastDelivery, sessError, sinkArray, sinkSize,
                   icSession, icImage, icCapturing, camActive, prodPc,
                   prodQuit, readyPending, consAlive, consQuit,
                   runningCameras, lastOp, lastCamCall, camSignals,
                   camThreadOps, vidImageCapture, vidRecorder, videoFrame,
                   protoFrame, lastSetFrame, sdkCameras, videoInputs, hpPc,
                   hpEvent, devSignals, lastDefault, prodRun, lastCallback,
                   icId, icDlv, icDelivered, lastCapture, devCall, inputsRef,
                   listHeap, held, runPc, stopV, lastFormat, vrState,
                   vrWriter, vrClosed, vrLock, vrCtlPc, vrDlvPc, vrAppend>>

\* setImageCapture, capture2.py 72-79
VideoSession_setImageCapture(imageCapture) ==
    /\ Idle
    /\ vidImageCapture' = imageCapture
    /\ UNCHANGED <<recorderState, writer, released, lastWriterId, writerArgs,
                   lock, actualLocation, outputLocation, cfgFrameRate,
                   cfgResolution, recSession, ctlPc, dlvPc, lastCall,
                   recSignals, wlog, lastAccess, recError, sessCamera,
                   sessArraySink, sessImageCapture, sessRecorder, mainPc,
                   sessSignals, camDevice, camSession, consumerSession,
                   frameQueue, consumerPc, consumerFrame, consumerLocal,
                   switchedAway, lastDelivery, sessError, sinkArray, sinkSize,
                   icSession, icImage, icCapturing, camActive, prodPc,
                   prodQuit, readyPending, consAlive, consQuit,
                   runningCameras, lastOp, lastCamCall, camSignals,
                   camThreadOps, vidRecorder, vidSink, videoFrame, protoFrame,
                   lastSetFrame, sdkCameras, videoInputs, hpPc, hpEvent,
                   devSignals, lastDefault, prodRun, lastCallback, icId,
                   icDlv, icDelivered, lastCapture, devCall, inputsRef,
                   listHeap, held, runPc, stopV, lastFormat, vrState,
                   vrWriter, vrClosed, vrLock, vrCtlPc, vrDlvPc, vrAppend>>

\* setRecorder, src/civiq6/capture.py 71-78
VideoSession_setRecorder(recorder) ==
    /\ Idle
    /\ vidRecorder' = recorder
    /\ UNCHANGED <<recorderState, writer, released, lastWriterId, writerArgs,
                   lock, actualLocation, outputLocation, cfgFrameRate,
                   cfgResolution, recSession, ctlPc, dlvPc, lastCall,
                   recSignals, wlog, lastAccess, recError, sessCamera,
                   sessArraySink, sessImageCapture, sessRecorder, mainPc,
                   sessSignals, camDevice, camSession, consumerSession,
                   frameQueue, consumerPc, consumerFrame, consumerLocal,
                   switchedAway, lastDelivery, sessError, sinkArray, sinkSize,
                   icSession, icImage, icCapturing, camActive, prodPc,
                   prodQuit, readyPending, consAlive, consQuit,
                   runningCameras, lastOp, lastCamCall, camSignals,
                   camThreadOps, vidImageCapture, vidSink, videoFrame,
                   protoFrame, lastSetFrame, sdkCameras, videoInputs, hpPc,
                   hpEvent, devSignals, lastDefault, prodRun, lastCallback,
                   icId, icDlv, icDelivered, lastCapture, devCall, inputsRef,
                   listHeap, held, runPc, stopV, lastFormat, vrState,
                   vrWriter, vrClosed, vrLock, vrCtlPc, vrDlvPc, vrAppend>>

\* if imageCapture is not None
HasVideoImageCapture == vidImageCapture # None

\* if recorder is not None
HasVideoRecorder == vidRecorder # None

\* if videoSink is not None
HasVideoSink == vidSink # None

\* A QVideoFrame whose buffer is written whatever the pixel format.
QVideoFrame_mapped(fmt, data) ==
    [format |-> COMPATIBLE_FORMATS(fmt),
     data |-> data]

\* videoFrame = QVideoFrame(frameFormat); the buffer is mapped and written
\* only if pixelFormat != Format_Invalid
QVideoFrame(fmt, data) ==
    [format |-> COMPATIBLE_FORMATS(fmt),
     data |-> IF COMPATIBLE_FORMATS(fmt) # "Format_Invalid"
              THEN data ELSE NoData]

\* The calls _setFrame makes on what is registered, in order.
SetFrameCalls ==
    (IF HasVideoImageCapture THEN <<"imageCapture._setFrame">> ELSE <<>>)
    \o (IF HasVideoRecorder THEN <<"recorder._setFrame">> ELSE <<>>)
    \o (IF HasVideoSink THEN <<"videoSink.setVideoFrame">> ELSE <<>>)

\* _setFrame(frame), capture2.py 42-67 and src/civiq6/capture.py 99-126
VideoSession_setFrame(fmt, data) ==
    /\ protoFrame' =
          [imageCapture |-> IF HasVideoImageCapture /\ vidImageCapture # None
                            THEN data ELSE protoFrame.imageCapture,
           recorder |-> IF HasVideoRecorder /\ vidRecorder # None
                        THEN data ELSE protoFrame.recorder]
    /\ videoFrame' = IF HasVideoSink /\ vidSink # None
                     THEN QVideoFrame(fmt, data) ELSE videoFrame
    /\ sessError' = (sessError
                     \/ (HasVideoImageCapture /\ vidImageCapture = None)
                     \/ (HasVideoRecorder /\ vidRecorder = None)
                     \/ (HasVideoSink /\ vidSink = None))
    /\ lastSetFrame' = [fmt |-> fmt, data |-> data, calls |-> SetFrameCalls]
    /\ UNCHANGED <<recorderState, writer, released, lastWriterId, writerArgs,
                   lock, actualLocation, outputLocation, cfgFrameRate,
                   cfgResolution, recSession, ctlPc, dlvPc, lastCall,
                   recSignals, wlog, lastAccess, recError, sessCamera,
                   sessArraySink, sessImageCapture, sessRecorder, mainPc,
                   sessSignals, camDevice, camSession, consumerSession,
                   frameQueue, consumerPc, consumerFrame, consumerLocal,
                   switchedAway, lastDelivery, sinkArray, sinkSize, icSession,
                   icImage, icCapturing, camActive, prodPc, prodQuit,
                   readyPending, consAlive, consQuit, runningCameras, lastOp,
                   lastCamCall, camSignals, camThreadOps, vidImageCapture,
                   vidRecorder, vidSink, sdkCameras, videoInputs, hpPc,
                   hpEvent, devSignals, lastDefault, prodRun, lastCallback,
                   icId, icDlv, icDelivered, lastCapture, devCall, inputsRef,
                   listHeap, held, runPc, stopV, lastFormat, vrState,
                   vrWriter, vrClosed, vrLock, vrCtlPc, vrDlvPc, vrAppend>>

(***************************************************************************)
(* VimbaDevices and the camera change handler of VimbaRunner,              *)
(* devices.py 105-186.  A VimbaCameraDevice is written as the SDK camera   *)
(* it wraps, NullDevice wrapping none.                                     *)
(***************************************************************************)
\* The cameras the SDK may enumerate.
SdkCameras == {"mono", "color"}

CameraEvents == {"Missing", "Detected", "Unreachable"}

NoEvent == [camera |-> "none", event |-> "none"]

\* List objects: the one _videoInputs refers to, the one a caller holds and
\* the one a refresh makes.  An object nothing refers to is empty.
ListIds == {1, 2, 3}

NoHeld == [ref |-> None, seen |-> <<>>]

DevInit ==
    /\ sdkCameras = <<"mono", "color">>
    /\ videoInputs = <<"mono", "color">>
    /\ hpPc = "idle"
    /\ hpEvent = NoEvent
    /\ devSignals = <<>>
    /\ lastDefault = [inputs |-> <<>>, ret |-> NullDevice]
    /\ inputsRef = 1
    /\ listHeap = [i \in ListIds |-> IF i = 1 THEN <<"mono", "color">>
                                     ELSE <<>>]
    /\ held = NoHeld
    /\ runPc = "ready"
    /\ stopV = NoStopVimba

\* A defaultVideoInput() that takes the last item of videoInputs().
defaultVideoInput_last ==
    IF videoInputs = <<>> THEN NullDevice ELSE videoInputs[Len(videoInputs)]

\* VimbaDevices.defaultVideoInput(), devices.py 168-182
defaultVideoInput ==
    IF videoInputs = <<>> THEN NullDevice ELSE videoInputs[1]

\* VimbaCameraDevice.isNull(), devices.py 268-270
isNull(dev) == dev = NullDevice

\* A call of defaultVideoInput(), and the list it found.
Devices_defaultVideoInput ==
    /\ lastDefault' = [inputs |-> videoInputs, ret |-> defaultVideoInput]
    /\ UNCHANGED <<recorderState, writer, released, lastWriterId, writerArgs,
                   lock, actualLocation, outputLocation, cfgFrameRate,
                   cfgResolution, recSession, ctlPc, dlvPc, lastCall,
                   recSignals, wlog, lastAccess, recError, sessCamera,
                   sessArraySink, sessImageCapture, sessRecorder, mainPc,
                   sessSignals, camDevice, camSession, consumerSession,
                   frameQueue, consumerPc, consumerFrame, consumerLocal,
                   switchedAway, lastDelivery, sessError, sinkArray, sinkSize,
                   icSession, icImage, icCapturing, camActive, prodPc,
                   prodQuit, readyPending, consAlive, consQuit,
                   runningCameras, lastOp, lastCamCall, camSignals,
                   camThreadOps, vidImageCapture, vidRecorder, vidSink,
                   videoFrame, protoFrame, lastSetFrame, sdkCameras,
                   videoInputs, hpPc, hpEvent, devSignals, prodRun,
                   lastCallback, icId, icDlv, icDelivered, lastCapture,
                   devCall, inputsRef, listHeap, held, runPc, stopV,
                   lastFormat, vrState, vrWriter, vrClosed, vrLock, vrCtlPc,
                   vrDlvPc, vrAppend>>

\* The sequence without its items equal to x.
Without(seq, x) ==
    LET F[i \in 0..Len(seq)] ==
            IF i = 0 THEN <<>>
            ELSE IF seq[i] = x THEN F[i - 1] ELSE Append(F[i - 1], seq[i])
    IN  F[Len(seq)]

\* The SDK finds a camera gone or new, updates what get_all_cameras()
\* returns and calls cameraChangeHandler(camera, event).
Sdk_cameraEvent(camera, event) ==
    /\ hpPc = "idle"
    /\ \/ /\ event = "Missing"
          /\ \E i \in 1..Len(sdkCameras) : sdkCameras[i] = camera
          /\ sdkCameras' = Without(sdkCameras, camera)
       \/ /\ event = "Detected"
          /\ \A i \in 1..Len(sdkCameras) : sdkCameras[i] # camera
          /\ sdkCameras' = Append(sdkCameras, camera)
       \/ /\ event = "Unreachable"
          /\ \E i \in 1..Len(sdkCameras) : sdkCameras[i] = camera
          /\ sdkCameras' = sdkCameras
    /\ hpEvent' = [camera |-> camera, event |-> event]
    /\ devSignals' = <<>>
    /\ hpPc' = "handle"
    /\ UNCHANGED <<recorderState, writer, released, lastWriterId, writerArgs,
                   lock, actualLocation, outputLocation, cfgFrameRate,
                   cfgResolution, recSession, ctlPc, dlvPc, lastCall,
                   recSignals, wlog, lastAccess, recError, sessCamera,
                   sessArraySink, sessImageCapture, sessRecorder, mainPc,
                   sessSignals, camDevice, camSession, consumerSession,
                   frameQueue, consumerPc, consumerFrame, consumerLocal,
                   switchedAway, lastDelivery, sessError, sinkArray, sinkSize,
                   icSession, icImage, icCapturing, camActive, prodPc,
                   prodQuit, readyPending, consAlive, consQuit,
                   runningCameras, lastOp, lastCamCall, camSignals,
                   camThreadOps, vidImageCapture, vidRecorder, vidSink,
                   videoFrame, protoFrame, lastSetFrame, videoInputs,
                   lastDefault, prodRun, lastCallback, icId, icDlv,
                   icDelivered, lastCapture, devCall, inputsRef, listHeap,
                   held, runPc, stopV, lastFormat, vrState, vrWriter,
                   vrClosed, vrLock, vrCtlPc, vrDlvPc, vrAppend>>

\* An index() that finds the camera started last, whatever its device.
RunningIndex_last(camera) == Len(runningCameras)

\* vimbaCameras.index(camera), devices.py 119-120: the place in
\* _runningCameras of the first camera bound to the SDK camera, or 0.
RunningIndex(camera) ==
    IF \E i \in 1..Len(runningCameras) : camDevice[runningCameras[i]] = camera
    THEN CHOOSE i \in 1..Len(runningCameras) :
            /\ camDevice[runningCameras[i]] = camera
            /\ \A j \in 1..(i - 1) : camDevice[runningCameras[j]] # camera
    ELSE 0

\* The sequence without its item at place k.
Pop(seq, k) ==
    [i \in 1..(Len(seq) - 1) |-> IF i < k THEN seq[i] ELSE seq[i + 1]]

\* cameraChangeHandler on Missing, devices.py 117-121:
\* self._runningCameras.pop(i).stop(), the thread of the handler making
\* the call of stop() up to self._frameProducer.quit()
HotPlug_stopCamera ==
    /\ hpPc = "handle"
    /\ hpEvent.event = "Missing"
    /\ RunningIndex(hpEvent.camera) # 0
    /\ Idle
    /\ LET c == runningCameras[RunningIndex(hpEvent.camera)] IN
         /\ runningCameras' = Pop(runningCameras, RunningIndex(hpEvent.camera))
         /\ lastOp' = [lastOp EXCEPT ![c] = "stop"]
         /\ lastCamCall' = CamCalled("stop", c)
         /\ camSignals' = <<>>
         /\ IF isAvailable(c) /\ camActive[c]
            THEN /\ prodQuit' = [prodQuit EXCEPT ![c] = TRUE]
                 /\ camThreadOps' = <<"frameProducer.quit">>
                 /\ mainPc' = [at |-> "stop_wait_producer", s |-> None,
                               c |-> c]
            ELSE /\ camThreadOps' = <<>>
                 /\ mainPc' = MainIdle
                 /\ UNCHANGED prodQuit
    /\ hpPc' = "stopping"
    /\ UNCHANGED <<recorderState, writer, released, lastWriterId, writerArgs,
                   lock, actualLocation, outputLocation, cfgFrameRate,
                   cfgResolution, recSession, ctlPc, dlvPc, lastCall,
                   recSignals, wlog, lastAccess, recError, sessCamera,
                   sessArraySink, sessImageCapture, sessRecorder, sessSignals,
                   camDevice, camSession, consumerSession, frameQueue,
                   consumerPc, consumerFrame, consumerLocal, switchedAway,
                   lastDelivery, sessError, sinkArray, sinkSize, icSession,
                   icImage, icCapturing, camActive, prodPc, readyPending,
                   consAlive, consQuit, vidImageCapture, vidRecorder, vidSink,
                   videoFrame, protoFrame, lastSetFrame, sdkCameras,
                   videoInputs, hpEvent, devSignals, lastDefault, prodRun,
                   lastCallback, icId, icDlv, icDelivered, lastCapture,
                   devCall, inputsRef, listHeap, held, runPc, stopV,
                   lastFormat, vrState, vrWriter, vrClosed, vrLock, vrCtlPc,
                   vrDlvPc, vrAppend>>

\* The handler goes to _updateCameras() at once: the event is Detected, or
\* it is Missing and index() raises ValueError, devices.py 122-126.
NothingToStop ==
    \/ hpEvent.event = "Detected"
    \/ (hpEvent.event = "Missing" /\ RunningIndex(hpEvent.camera) = 0)

\* [VimbaCameraDevice._fromCamera(c) for c in cams], devices.py 130: a list
\* object that did not exist before
NewListId ==
    CHOOSE i \in ListIds :
        /\ i \notin {inputsRef, held.ref}
        /\ \A j \in ListIds : j \notin {inputsRef, held.ref} => i <= j

\* An _updateCameras that clears and refills the list _videoInputs refers to.
HotPlug_updateCameras_inplace ==
    /\ \/ hpPc = "stopping" /\ mainPc.at = "idle"
       \/ hpPc = "handle" /\ NothingToStop
    /\ videoInputs' = sdkCameras
    /\ listHeap' = [listHeap EXCEPT ![inputsRef] = sdkCameras]
    /\ devSignals' = Append(devSignals, "videoInputsChanged")
    /\ hpPc' = "idle"
    /\ UNCHANGED <<recorderState, writer, released, lastWriterId, writerArgs,
                   lock, actualLocation, outputLocation, cfgFrameRate,
                   cfgResolution, recSession, ctlPc, dlvPc, lastCall,
                   recSignals, wlog, lastAccess, recError, sessCamera,
                   sessArraySink, sessImageCapture, sessRecorder, mainPc,
                   sessSignals, camDevice, camSession, consumerSession,
                   frameQueue, consumerPc, consumerFrame, consumerLocal,
                   switchedAway, lastDelivery, sessError, sinkArray, sinkSize,
                   icSession, icImage, icCapturing, camActive, prodPc,
                   prodQuit, readyPending, consAlive, consQuit,
                   runningCameras, lastOp, lastCamCall, camSignals,
                   camThreadOps, vidImageCapture, vidRecorder, vidSink,
                   videoFrame, protoFrame, lastSetFrame, sdkCameras, hpEvent,
                   lastDefault, prodRun, lastCallback, icId, icDlv,
                   icDelivered, lastCapture, devCall, inputsRef, held, runPc,
                   stopV, lastFormat, vrState, vrWriter, vrClosed, vrLock,
                   vrCtlPc, vrDlvPc, vrAppend>>

\* A _updateCameras that emits nothing.
HotPlug_updateCameras_silent ==
    /\ \/ hpPc = "stopping" /\ mainPc.at = "idle"
       \/ hpPc = "handle" /\ NothingToStop
    /\ videoInputs' = sdkCameras
    /\ inputsRef' = NewListId
    /\ listHeap' = [i \in ListIds |->
                       IF i = NewListId THEN sdkCameras
                       ELSE IF i = held.ref THEN listHeap[i]
                       ELSE <<>>]
    /\ devSignals' = devSignals
    /\ hpPc' = "idle"
    /\ UNCHANGED <<recorderState, writer, released, lastWriterId, writerArgs,
                   lock, actualLocation, outputLocation, cfgFrameRate,
                   cfgResolution, recSession, ctlPc, dlvPc, lastCall,
                   recSignals, wlog, lastAccess, recError, sessCamera,
                   sessArraySink, sessImageCapture, sessRecorder, mainPc,
                   sessSignals, camDevice, camSession, consumerSession,
                   frameQueue, consumerPc, consumerFrame, consumerLocal,
                   switchedAway, lastDelivery, sessError, sinkArray, sinkSize,
                   icSession, icImage, icCapturing, camActive, prodPc,
                   prodQuit, readyPending, consAlive, consQuit,
                   runningCameras, lastOp, lastCamCall, camSignals,
                   camThreadOps, vidImageCapture, vidRecorder, vidSink,
                   videoFrame, protoFrame, lastSetFrame, sdkCameras, hpEvent,
                   lastDefault, prodRun, lastCallback, icId, icDlv,
                   icDelivered, lastCapture, devCall, held, runPc, stopV,
                   lastFormat, vrState, vrWriter, vrClosed, vrLock, vrCtlPc,
                   vrDlvPc, vrAppend>>

\* cameraChangeHandler, devices.py 122-126, once stop() has returned or
\* with no camera to stop: self._updateCameras(), 128-130, with
\* _setVideoInputs, 184-186
HotPlug_updateCameras ==
    /\ \/ hpPc = "stopping" /\ mainPc.at = "idle"
       \/ hpPc = "handle" /\ NothingToStop
    /\ videoInputs' = sdkCameras
    /\ inputsRef' = NewListId
    /\ listHeap' = [i \in ListIds |->
                       IF i = NewListId THEN sdkCameras
                       ELSE IF i = held.ref THEN listHeap[i]
                       ELSE <<>>]
    /\ devSignals' = Append(devSignals, "videoInputsChanged")
    /\ hpPc' = "idle"
    /\ UNCHANGED <<recorderState, writer, released, lastWriterId, writerArgs,
                   lock, actualLocation, outputLocation, cfgFrameRate,
                   cfgResolution, recSession, ctlPc, dlvPc, lastCall,
                   recSignals, wlog, lastAccess, recError, sessCamera,
                   sessArraySink, sessImageCapture, sessRecorder, mainPc,
                   sessSignals, camDevice, camSession, consumerSession,
                   frameQueue, consumerPc, consumerFrame, consumerLocal,
                   switchedAway, lastDelivery, sessError, sinkArray, sinkSize,
                   icSession, icImage, icCapturing, camActive, prodPc,
                   prodQuit, readyPending, consAlive, consQuit,
                   runningCameras, lastOp, lastCamCall, camSignals,
                   camThreadOps, vidImageCapture, vidRecorder, vidSink,
                   videoFrame, protoFrame, lastSetFrame, sdkCameras, hpEvent,
                   lastDefault, prodRun, lastCallback, icId, icDlv,
                   icDelivered, lastCapture, devCall, held, runPc, stopV,
                   lastFormat, vrState, vrWriter, vrClosed, vrLock, vrCtlPc,
                   vrDlvPc, vrAppend>>

\* VimbaDevices.videoInputs(), devices.py 163-166, called by any thread: the
\* caller gets the list object itself.
Devices_videoInputs ==
    /\ held' = [ref |-> inputsRef, seen |-> listHeap[inputsRef]]
    /\ held' # held
    /\ listHeap' = [i \in ListIds |->
                       IF i = inputsRef THEN listHeap[i] ELSE <<>>]
    /\ UNCHANGED <<recorderState, writer, released, lastWriterId, writerArgs,
                   lock, actualLocation, outputLocation, cfgFrameRate,
                   cfgResolution, recSession, ctlPc, dlvPc, lastCall,
                   recSignals, wlog, lastAccess, recError, sessCamera,
                   sessArraySink, sessImageCapture, sessRecorder, mainPc,
                   sessSignals, camDevice, camSession, consumerSession,
                   frameQueue, consumerPc, consumerFrame, consumerLocal,
                   switchedAway, lastDelivery, sessError, sinkArray, sinkSize,
                   icSession, icImage, icCapturing, camActive, prodPc,
                   prodQuit, readyPending, consAlive, consQuit,
                   runningCameras, lastOp, lastCamCall, camSignals,
                   camThreadOps, vidImageCapture, vidRecorder, vidSink,
                   videoFrame, protoFrame, lastSetFrame, sdkCameras,
                   videoInputs, hpPc, hpEvent, devSignals, lastDefault,
                   prodRun, lastCallback, icId, icDlv, icDelivered,
                   lastCapture, devCall, inputsRef, runPc, stopV, lastFormat,
                   vrState, vrWriter, vrClosed, vrLock, vrCtlPc, vrDlvPc,
                   vrAppend>>

\* The caller lets go of the list it got.
Devices_videoInputs_release ==
    /\ held.ref # None
    /\ held' = NoHeld
    /\ listHeap' = [i \in ListIds |->
                       IF i = inputsRef THEN listHeap[i] ELSE <<>>]
    /\ UNCHANGED <<recorderState, writer, released, lastWriterId, writerArgs,
                   lock, actualLocation, outputLocation, cfgFrameRate,
                   cfgResolution, recSession, ctlPc, dlvPc, lastCall,
                   recSignals, wlog, lastAccess, recError, sessCamera,
                   sessArraySink, sessImageCapture, sessRecorder, mainPc,
                   sessSignals, camDevice, camSession, consumerSession,
                   frameQueue, consumerPc, consumerFrame, consumerLocal,
                   switchedAway, lastDelivery, sessError, sinkArray, sinkSize,
                   icSession, icImage, icCapturing, camActive, prodPc,
                   prodQuit, readyPending, consAlive, consQuit,
                   runningCameras, lastOp, lastCamCall, camSignals,
                   camThreadOps, vidImageCapture, vidRecorder, vidSink,
                   videoFrame, protoFrame, lastSetFrame, sdkCameras,
                   videoInputs, hpPc, hpEvent, devSignals, lastDefault,
                   prodRun, lastCallback, icId, icDlv, icDelivered,
                   lastCapture, devCall, inputsRef, runPc, stopV, lastFormat,
                   vrState, vrWriter, vrClosed, vrLock, vrCtlPc, vrDlvPc,
                   vrAppend>>

\* cameraChangeHandler on any other event: neither branch is taken
HotPlug_ignore ==
    /\ hpPc = "handle"
    /\ hpEvent.event \notin {"Missing", "Detected"}
    /\ hpPc' = "idle"
    /\ UNCHANGED <<recorderState, writer, released, lastWriterId, writerArgs,
                   lock, actualLocation, outputLocation, cfgFrameRate,
                   cfgResolution, recSession, ctlPc, dlvPc, lastCall,
                   recSignals, wlog, lastAccess, recError, sessCamera,
                   sessArraySink, sessImageCapture, sessRecorder, mainPc,
                   sessSignals, camDevice, camSession, consumerSession,
                   frameQueue, consumerPc, consumerFrame, consumerLocal,
                   switchedAway, lastDelivery, sessError, sinkArray, sinkSize,
                   icSession, icImage, icCapturing, camActive, prodPc,
                   prodQuit, readyPending, consAlive, consQuit,
                   runningCameras, lastOp, lastCamCall, camSignals,
                   camThreadOps, vidImageCapture, vidRecorder, vidSink,
                   videoFrame, protoFrame, lastSetFrame, sdkCameras,
                   videoInputs, hpEvent, devSignals, lastDefault, prodRun,
                   lastCallback, icId, icDlv, icDelivered, lastCapture,
                   devCall, inputsRef, listHeap, held, runPc, stopV,
                   lastFormat, vrState, vrWriter, vrClosed, vrLock, vrCtlPc,
                   vrDlvPc, vrAppend>>

(***************************************************************************)
(* VimbaCamera.setCameraDevice, camera.py 119-134                          *)
(***************************************************************************)
\* setCameraDevice() without an argument takes VimbaDevices.defaultVideoInput()
DeviceArgs == Devices \cup {"none"}

\* A setCameraDevice that does not stop the camera first.
Camera_setCameraDevice_nostop(c, device) ==
    /\ Idle
    /\ devCall' = [at |-> "stopping", cam |-> c, device |-> device,
                   wasRunning |-> camActive[c], session |-> camSession[c]]
    /\ UNCHANGED <<recorderState, writer, released, lastWriterId, writerArgs,
                   lock, actualLocation, outputLocation, cfgFrameRate,
                   cfgResolution, recSession, ctlPc, dlvPc, lastCall,
                   recSignals, wlog, lastAccess, recError, sessCamera,
                   sessArraySink, sessImageCapture, sessRecorder, mainPc,
                   sessSignals, camDevice, camSession, consumerSession,
                   frameQueue, consumerPc, consumerFrame, consumerLocal,
                   switchedAway, lastDelivery, sessError, sinkArray, sinkSize,
                   icSession, icImage, icCapturing, camActive, prodPc,
                   prodQuit, readyPending, consAlive, consQuit,
                   runningCameras, lastOp, lastCamCall, camSignals,
                   camThreadOps, vidImageCapture, vidRecorder, vidSink,
                   videoFrame, protoFrame, lastSetFrame, sdkCameras,
                   videoInputs, hpPc, hpEvent, devSignals, lastDefault,
                   prodRun, lastCallback, icId, icDlv, icDelivered,
                   lastCapture, inputsRef, listHeap, held, runPc, stopV,
                   lastFormat, vrState, vrWriter, vrClosed, vrLock, vrCtlPc,
                   vrDlvPc, vrAppend>>

\* was_running = self.isActive(); self.stop(), 125-126: the call of stop()
\* up to self._frameProducer.quit()
Camera_setCameraDevice(c, device) ==
    /\ Idle
    /\ devCall' = [at |-> "stopping", cam |-> c, device |-> device,
                   wasRunning |-> camActive[c], session |-> camSession[c]]
    /\ lastOp' = [lastOp EXCEPT ![c] = "stop"]
    /\ lastCamCall' = CamCalled("stop", c)
    /\ camSignals' = <<>>
    /\ IF isAvailable(c) /\ camActive[c]
       THEN /\ prodQuit' = [prodQuit EXCEPT ![c] = TRUE]
            /\ camThreadOps' = <<"frameProducer.quit">>
            /\ mainPc' = [at |-> "stop_wait_producer", s |-> None, c |-> c]
       ELSE /\ camThreadOps' = <<>>
            /\ mainPc' = MainIdle
            /\ UNCHANGED prodQuit
    /\ UNCHANGED <<recorderState, writer, released, lastWriterId, writerArgs,
                   lock, actualLocation, outputLocation, cfgFrameRate,
                   cfgResolution, recSession, ctlPc, dlvPc, lastCall,
                   recSignals, wlog, lastAccess, recError, sessCamera,
                   sessArraySink, sessImageCapture, sessRecorder, sessSignals,
                   camDevice, camSession, consumerSession, frameQueue,
                   consumerPc, consumerFrame, consumerLocal, switchedAway,
                   lastDelivery, sessError, sinkArray, sinkSize, icSession,
                   icImage, icCapturing, camActive, prodPc, readyPending,
                   consAlive, consQuit, runningCameras, vidImageCapture,
                   vidRecorder, vidSink, videoFrame, protoFrame, lastSetFrame,
                   sdkCameras, videoInputs, hpPc, hpEvent, devSignals,
                   lastDefault, prodRun, lastCallback, icId, icDlv,
                   icDelivered, lastCapture, inputsRef, listHeap, held, runPc,
                   stopV, lastFormat, vrState, vrWriter, vrClosed, vrLock,
                   vrCtlPc, vrDlvPc, vrAppend>>

\* The device a setCameraDevice call sets, 128-130
NewDevice == IF devCall.device = "none" THEN defaultVideoInput
             ELSE devCall.device

\* A setCameraDevice that does not start the camera again.
Camera_setCameraDevice_norestart ==
    /\ devCall.at = "stopping"
    /\ mainPc.at = "idle"
    /\ camDevice' = [camDevice EXCEPT ![devCall.cam] = NewDevice]
    /\ prodQuit' = [prodQuit EXCEPT ![devCall.cam] = FALSE]
    /\ readyPending' = [readyPending EXCEPT ![devCall.cam] = FALSE]
    /\ devCall' = [devCall EXCEPT !.at = "none"]
    /\ UNCHANGED <<recorderState, writer, released, lastWriterId, writerArgs,
                   lock, actualLocation, outputLocation, cfgFrameRate,
                   cfgResolution, recSession, ctlPc, dlvPc, lastCall,
                   recSignals, wlog, lastAccess, recError, sessCamera,
                   sessArraySink, sessImageCapture, sessRecorder, mainPc,
                   sessSignals, camSession, consumerSession, frameQueue,
                   consumerPc, consumerFrame, consumerLocal, switchedAway,
                   lastDelivery, sessError, sinkArray, sinkSize, icSession,
                   icImage, icCapturing, camActive, prodPc, consAlive,
                   consQuit, runningCameras, lastOp, lastCamCall, camSignals,
                   camThreadOps, vidImageCapture, vidRecorder, vidSink,
                   videoFrame, protoFrame, lastSetFrame, sdkCameras,
                   videoInputs, hpPc, hpEvent, devSignals, lastDefault,
                   prodRun, lastCallback, icId, icDlv, icDelivered,
                   lastCapture, inputsRef, listHeap, held, runPc, stopV,
                   lastFormat, vrState, vrWriter, vrClosed, vrLock, vrCtlPc,
                   vrDlvPc, vrAppend>>

\* stop() has returned; self._cameraDevice = device; self._frameProducer =
\* FrameProducer(device._Camera, self._frameQueue); if was_running:
\* self.start(), 127-134: the call of start() up to the branch it takes
Camera_setCameraDevice_swap ==
    /\ devCall.at = "stopping"
    /\ mainPc.at = "idle"
    /\ LET c == devCall.cam IN
         /\ camDevice' = [camDevice EXCEPT ![c] = NewDevice]
         /\ prodQuit' = [prodQuit EXCEPT ![c] = FALSE]
         /\ readyPending' = [readyPending EXCEPT ![c] = FALSE]
         /\ IF devCall.wasRunning
            THEN /\ lastOp' = [lastOp EXCEPT ![c] = "start"]
                 /\ lastCamCall' = CamCalled("start", c)
                 /\ camSignals' = <<>>
                 /\ camThreadOps' = <<>>
                 /\ mainPc' = IF NewDevice # NullDevice /\ ~camActive[c]
                              THEN [at |-> "start_consumer", s |-> None,
                                    c |-> c]
                              ELSE MainIdle
                 /\ devCall' = [devCall EXCEPT !.at = "starting"]
            ELSE /\ devCall' = [devCall EXCEPT !.at = "none"]
                 /\ UNCHANGED <<lastOp, lastCamCall, camSignals,
                                camThreadOps, mainPc>>
    /\ UNCHANGED <<recorderState, writer, released, lastWriterId, writerArgs,
                   lock, actualLocation, outputLocation, cfgFrameRate,
                   cfgResolution, recSession, ctlPc, dlvPc, lastCall,
                   recSignals, wlog, lastAccess, recError, sessCamera,
                   sessArraySink, sessImageCapture, sessRecorder, sessSignals,
                   camSession, consumerSession, frameQueue, consumerPc,
                   consumerFrame, consumerLocal, switchedAway, lastDelivery,
                   sessError, sinkArray, sinkSize, icSession, icImage,
                   icCapturing, camActive, prodPc, consAlive, consQuit,
                   runningCameras, vidImageCapture, vidRecorder, vidSink,
                   videoFrame, protoFrame, lastSetFrame, sdkCameras,
                   videoInputs, hpPc, hpEvent, devSignals, lastDefault,
                   prodRun, lastCallback, icId, icDlv, icDelivered,
                   lastCapture, inputsRef, listHeap, held, runPc, stopV,
                   lastFormat, vrState, vrWriter, vrClosed, vrLock, vrCtlPc,
                   vrDlvPc, vrAppend>>

\* start() has returned, and setCameraDevice returns
Camera_setCameraDevice_return ==
    /\ devCall.at = "starting"
    /\ mainPc.at = "idle"
    /\ devCall' = [devCall EXCEPT !.at = "none"]
    /\ UNCHANGED <<recorderState, writer, released, lastWriterId, writerArgs,
                   lock, actualLocation, outputLocation, cfgFrameRate,
                   cfgResolution, recSession, ctlPc, dlvPc, lastCall,
                   recSignals, wlog, lastAccess, recError, sessCamera,
                   sessArraySink, sessImageCapture, sessRecorder, mainPc,
                   sessSignals, camDevice, camSession, consumerSession,
                   frameQueue, consumerPc, consumerFrame, consumerLocal,
                   switchedAway, lastDelivery, sessError, sinkArray, sinkSize,
                   icSession, icImage, icCapturing, camActive, prodPc,
                   prodQuit, readyPending, consAlive, consQuit,
                   runningCameras, lastOp, lastCamCall, camSignals,
                   camThreadOps, vidImageCapture, vidRecorder, vidSink,
                   videoFrame, protoFrame, lastSetFrame, sdkCameras,
                   videoInputs, hpPc, hpEvent, devSignals, lastDefault,
                   prodRun, lastCallback, icId, icDlv, icDelivered,
                   lastCapture, inputsRef, listHeap, held, runPc, stopV,
                   lastFormat, vrState, vrWriter, vrClosed, vrLock, vrCtlPc,
                   vrDlvPc, vrAppend>>

(***************************************************************************)
(* VimbaRunner.runVimba and stopVimba, devices.py 80-113.  The cameras and *)
(* the registry exist once vimbaReady was emitted (devices.py 100), so     *)
(* runVimba begins between that line and self._eventLoop.exec() (101).     *)
(***************************************************************************)
\* register_camera_change_handler, 98, up to its unregistration, 103
HandlerRegistered == runPc # "off"

\* self._eventLoop.exec(), 101: the loop starts to run.  A quit() made
\* before this has no effect on it.
Runner_run_exec ==
    /\ runPc = "ready"
    /\ runPc' = "exec"
    /\ UNCHANGED <<recorderState, writer, released, lastWriterId, writerArgs,
                   lock, actualLocation, outputLocation, cfgFrameRate,
                   cfgResolution, recSession, ctlPc, dlvPc, lastCall,
                   recSignals, wlog, lastAccess, recError, sessCamera,
                   sessArraySink, sessImageCapture, sessRecorder, mainPc,
                   sessSignals, camDevice, camSession, consumerSession,
                   frameQueue, consumerPc, consumerFrame, consumerLocal,
                   switchedAway, lastDelivery, sessError, sinkArray, sinkSize,
                   icSession, icImage, icCapturing, camActive, prodPc,
                   prodQuit, readyPending, consAlive, consQuit,
                   runningCameras, lastOp, lastCamCall, camSignals,
                   camThreadOps, vidImageCapture, vidRecorder, vidSink,
                   videoFrame, protoFrame, lastSetFrame, sdkCameras,
                   videoInputs, hpPc, hpEvent, devSignals, lastDefault,
                   prodRun, lastCallback, icId, icDlv, icDelivered,
                   lastCapture, devCall, inputsRef, listHeap, held, stopV,
                   lastFormat, vrState, vrWriter, vrClosed, vrLock, vrCtlPc,
                   vrDlvPc, vrAppend>>

\* exec() returns; finally: unregister_camera_change_handler, 101-103
Runner_run_finally ==
    /\ runPc = "leaving"
    /\ runPc' = "off"
    /\ UNCHANGED <<recorderState, writer, released, lastWriterId, writerArgs,
                   lock, actualLocation, outputLocation, cfgFrameRate,
                   cfgResolution, recSession, ctlPc, dlvPc, lastCall,
                   recSignals, wlog, lastAccess, recError, sessCamera,
                   sessArraySink, sessImageCapture, sessRecorder, mainPc,
                   sessSignals, camDevice, camSession, consumerSession,
                   frameQueue, consumerPc, consumerFrame, consumerLocal,
                   switchedAway, lastDelivery, sessError, sinkArray, sinkSize,
                   icSession, icImage, icCapturing, camActive, prodPc,
                   prodQuit, readyPending, consAlive, consQuit,
                   runningCameras, lastOp, lastCamCall, camSignals,
                   camThreadOps, vidImageCapture, vidRecorder, vidSink,
                   videoFrame, protoFrame, lastSetFrame, sdkCameras,
                   videoInputs, hpPc, hpEvent, devSignals, lastDefault,
                   prodRun, lastCallback, icId, icDlv, icDelivered,
                   lastCapture, devCall, inputsRef, listHeap, held, stopV,
                   lastFormat, vrState, vrWriter, vrClosed, vrLock, vrCtlPc,
                   vrDlvPc, vrAppend>>

\* stopVimba(), 106-109, is called, once, as by the closeEvent of the
\* examples
Runner_stopVimba ==
    /\ Idle
    /\ stopV.at = "none"
    /\ stopV' = [at |-> "loop", cam |-> None,
                 wasActive |-> {c \in Cameras : camActive[c]}, log |-> <<>>]
    /\ UNCHANGED <<recorderState, writer, released, lastWriterId, writerArgs,
                   lock, actualLocation, outputLocation, cfgFrameRate,
                   cfgResolution, recSession, ctlPc, dlvPc, lastCall,
                   recSignals, wlog, lastAccess, recError, sessCamera,
                   sessArraySink, sessImageCapture, sessRecorder, mainPc,
                   sessSignals, camDevice, camSession, consumerSession,
                   frameQueue, consumerPc, consumerFrame, consumerLocal,
                   switchedAway, lastDelivery, sessError, sinkArray, sinkSize,
                   icSession, icImage, icCapturing, camActive, prodPc,
                   prodQuit, readyPending, consAlive, consQuit,
                   runningCameras, lastOp, lastCamCall, camSignals,
                   camThreadOps, vidImageCapture, vidRecorder, vidSink,
                   videoFrame, protoFrame, lastSetFrame, sdkCameras,
                   videoInputs, hpPc, hpEvent, devSignals, lastDefault,
                   prodRun, lastCallback, icId, icDlv, icDelivered,
                   lastCapture, devCall, inputsRef, listHeap, held, runPc,
                   lastFormat, vrState, vrWriter, vrClosed, vrLock, vrCtlPc,
                   vrDlvPc, vrAppend>>

\* while self._runningCameras: cam = self._runningCameras.pop();
\* cam.stop(), 110-112: the call of stop() up to self._frameProducer.quit()
Runner_stopVimba_pop ==
    /\ stopV.at = "loop"
    /\ runningCameras # <<>>
    /\ LET c == runningCameras[Len(runningCameras)] IN
         /\ runningCameras' = Pop(runningCameras, Len(runningCameras))
         /\ stopV' = [stopV EXCEPT !.at = "stopping", !.cam = c]
         /\ lastOp' = [lastOp EXCEPT ![c] = "stop"]
         /\ lastCamCall' = CamCalled("stop", c)
         /\ camSignals' = <<>>
         /\ IF isAvailable(c) /\ camActive[c]
            THEN /\ prodQuit' = [prodQuit EXCEPT ![c] = TRUE]
                 /\ camThreadOps' = <<"frameProducer.quit">>
                 /\ mainPc' = [at |-> "stop_wait_producer", s |-> None,
                               c |-> c]
            ELSE /\ camThreadOps' = <<>>
                 /\ mainPc' = MainIdle
                 /\ UNCHANGED prodQuit
    /\ UNCHANGED <<recorderState, writer, released, lastWriterId, writerArgs,
                   lock, actualLocation, outputLocation, cfgFrameRate,
                   cfgResolution, recSession, ctlPc, dlvPc, lastCall,
                   recSignals, wlog, lastAccess, recError, sessCamera,
                   sessArraySink, sessImageCapture, sessRecorder, sessSignals,
                   camDevice, camSession, consumerSession, frameQueue,
                   consumerPc, consumerFrame, consumerLocal, switchedAway,
                   lastDelivery, sessError, sinkArray, sinkSize, icSession,
                   icImage, icCapturing, camActive, prodPc, readyPending,
                   consAlive, consQuit, vidImageCapture, vidRecorder, vidSink,
                   videoFrame, protoFrame, lastSetFrame, sdkCameras,
                   videoInputs, hpPc, hpEvent, devSignals, lastDefault,
                   prodRun, lastCallback, icId, icDlv, icDelivered,
                   lastCapture, devCall, inputsRef, listHeap, held, runPc,
                   lastFormat, vrState, vrWriter, vrClosed, vrLock, vrCtlPc,
                   vrDlvPc, vrAppend>>

\* cam.stop() has returned, 112: back to the test of the loop
Runner_stopVimba_next ==
    /\ stopV.at = "stopping"
    /\ mainPc.at = "idle"
    /\ stopV' = [stopV EXCEPT !.at = "loop",
                               !.log = Append(@, <<stopV.cam, camSignals>>)]
    /\ UNCHANGED <<recorderState, writer, released, lastWriterId, writerArgs,
                   lock, actualLocation, outputLocation, cfgFrameRate,
                   cfgResolution, recSession, ctlPc, dlvPc, lastCall,
                   recSignals, wlog, lastAccess, recError, sessCamera,
                   sessArraySink, sessImageCapture, sessRecorder, mainPc,
                   sessSignals, camDevice, camSession, consumerSession,
                   frameQueue, consumerPc, consumerFrame, consumerLocal,
                   switchedAway, lastDelivery, sessError, sinkArray, sinkSize,
                   icSession, icImage, icCapturing, camActive, prodPc,
                   prodQuit, readyPending, consAlive, consQuit,
                   runningCameras, lastOp, lastCamCall, camSignals,
                   camThreadOps, vidImageCapture, vidRecorder, vidSink,
                   videoFrame, protoFrame, lastSetFrame, sdkCameras,
                   videoInputs, hpPc, hpEvent, devSignals, lastDefault,
                   prodRun, lastCallback, icId, icDlv, icDelivered,
                   lastCapture, devCall, inputsRef, listHeap, held, runPc,
                   lastFormat, vrState, vrWriter, vrClosed, vrLock, vrCtlPc,
                   vrDlvPc, vrAppend>>

\* self._eventLoop.quit(), 113, and the return: a loop that runs is told
\* to leave exec()
Runner_stopVimba_quit ==
    /\ stopV.at = "loop"
    /\ runningCameras = <<>>
    /\ runPc' = IF runPc = "exec" THEN "leaving" ELSE runPc
    /\ stopV' = [stopV EXCEPT !.at = "returned"]
    /\ UNCHANGED <<recorderState, writer, released, lastWriterId, writerArgs,
                   lock, actualLocation, outputLocation, cfgFrameRate,
                   cfgResolution, recSession, ctlPc, dlvPc, lastCall,
                   recSignals, wlog, lastAccess, recError, sessCamera,
                   sessArraySink, sessImageCapture, sessRecorder, mainPc,
                   sessSignals, camDevice, camSession, consumerSession,
                   frameQueue, consumerPc, consumerFrame, consumerLocal,
                   switchedAway, lastDelivery, sessError, sinkArray, sinkSize,
                   icSession, icImage, icCapturing, camActive, prodPc,
                   prodQuit, readyPending, consAlive, consQuit,
                   runningCameras, lastOp, lastCamCall, camSignals,
                   camThreadOps, vidImageCapture, vidRecorder, vidSink,
                   videoFrame, protoFrame, lastSetFrame, sdkCameras,
                   videoInputs, hpPc, hpEvent, devSignals, lastDefault,
                   prodRun, lastCallback, icId, icDlv, icDelivered,
                   lastCapture, devCall, inputsRef, listHeap, held,
                   lastFormat, vrState, vrWriter, vrClosed, vrLock, vrCtlPc,
                   vrDlvPc, vrAppend>>

(***************************************************************************)
(* The specifications                                                      *)
(***************************************************************************)
(***************************************************************************)
(* The VideoRecorder of the PySide6 example (videorecorder.py 12-91):      *)
(* record(), pause() and stop() are called by one thread, _setFrame by the *)
(* thread that delivers the frames.                                        *)
(***************************************************************************)
NoAppend == [at |-> "none", writer |-> None, open |-> FALSE]

\* __init__, 20-26
ExInit ==
    /\ vrState = StoppedState
    /\ vrWriter = None
    /\ vrClosed = {}
    /\ vrLock = "free"
    /\ vrCtlPc = "idle"
    /\ vrDlvPc = "idle"
    /\ vrAppend = NoAppend

\* The writer imageio.get_writer returns: an object that is not in use.
VideoRecorder_newWriter == IF 1 \in vrClosed \/ vrClosed = {} THEN 2 ELSE 1

\* record(), 44-52 and 63-66: the tests of session, camera and state, and
\* the branch of PausedState
VideoRecorder_record(ready) ==
    /\ vrCtlPc = "idle"
    /\ IF ~ready
       THEN UNCHANGED <<vrState, vrCtlPc>>
       ELSE CASE vrState = StoppedState ->
                   /\ vrCtlPc' = "rec_lock"
                   /\ UNCHANGED vrState
              [] vrState = PausedState ->
                   /\ vrState' = RecordingState
                   /\ UNCHANGED vrCtlPc
              [] OTHER -> UNCHANGED <<vrState, vrCtlPc>>
    /\ UNCHANGED <<recorderState, writer, released, lastWriterId, writerArgs,
                   lock, actualLocation, outputLocation, cfgFrameRate,
                   cfgResolution, recSession, ctlPc, dlvPc, lastCall,
                   recSignals, wlog, lastAccess, recError, sessCamera,
                   sessArraySink, sessImageCapture, sessRecorder, mainPc,
                   sessSignals, camDevice, camSession, consumerSession,
                   frameQueue, consumerPc, consumerFrame, consumerLocal,
                   switchedAway, lastDelivery, sessError, sinkArray, sinkSize,
                   icSession, icImage, icCapturing, camActive, prodPc,
                   prodQuit, readyPending, consAlive, consQuit,
                   runningCameras, lastOp, lastCamCall, camSignals,
                   camThreadOps, vidImageCapture, vidRecorder, vidSink,
                   videoFrame, protoFrame, lastSetFrame, sdkCameras,
                   videoInputs, hpPc, hpEvent, devSignals, lastDefault,
                   prodRun, lastCallback, icId, icDlv, icDelivered,
                   lastCapture, devCall, inputsRef, listHeap, held, runPc,
                   stopV, lastFormat, vrWriter, vrClosed, vrLock, vrDlvPc,
                   vrAppend>>

\* self._lock.lock(), 56
VideoRecorder_record_lock ==
    /\ vrCtlPc = "rec_lock"
    /\ vrLock = "free"
    /\ vrLock' = "ctl"
    /\ vrCtlPc' = "rec_open"
    /\ UNCHANGED <<recorderState, writer, released, lastWriterId, writerArgs,
                   lock, actualLocation, outputLocation, cfgFrameRate,
                   cfgResolution, recSession, ctlPc, dlvPc, lastCall,
                   recSignals, wlog, lastAccess, recError, sessCamera,
                   sessArraySink, sessImageCapture, sessRecorder, mainPc,
                   sessSignals, camDevice, camSession, consumerSession,
                   frameQueue, consumerPc, consumerFrame, consumerLocal,
                   switchedAway, lastDelivery, sessError, sinkArray, sinkSize,
                   icSession, icImage, icCapturing, camActive, prodPc,
                   prodQuit, readyPending, consAlive, consQuit,
                   runningCameras, lastOp, lastCamCall, camSignals,
                   camThreadOps, vidImageCapture, vidRecorder, vidSink,
                   videoFrame, protoFrame, lastSetFrame, sdkCameras,
                   videoInputs, hpPc, hpEvent, devSignals, lastDefault,
                   prodRun, lastCallback, icId, icDlv, icDelivered,
                   lastCapture, devCall, inputsRef, listHeap, held, runPc,
                   stopV, lastFormat, vrState, vrWriter, vrClosed, vrDlvPc,
                   vrAppend>>

\* self._writer = imageio.get_writer(path, fps=fps); self._lock.unlock(),
\* 57-58
VideoRecorder_record_open ==
    /\ vrCtlPc = "rec_open"
    /\ vrWriter' = VideoRecorder_newWriter
    /\ vrClosed' = vrClosed \ {VideoRecorder_newWriter}
    /\ vrLock' = "free"
    /\ vrCtlPc' = "rec_state"
    /\ UNCHANGED <<recorderState, writer, released, lastWriterId, writerArgs,
                   lock, actualLocation, outputLocation, cfgFrameRate,
                   cfgResolution, recSession, ctlPc, dlvPc, lastCall,
                   recSignals, wlog, lastAccess, recError, sessCamera,
                   sessArraySink, sessImageCapture, sessRecorder, mainPc,
                   sessSignals, camDevice, camSession, consumerSession,
                   frameQueue, consumerPc, consumerFrame, consumerLocal,
                   switchedAway, lastDelivery, sessError, sinkArray, sinkSize,
                   icSession, icImage, icCapturing, camActive, prodPc,
                   prodQuit, readyPending, consAlive, consQuit,
                   runningCameras, lastOp, lastCamCall, camSignals,
                   camThreadOps, vidImageCapture, vidRecorder, vidSink,
                   videoFrame, protoFrame, lastSetFrame, sdkCameras,
                   videoInputs, hpPc, hpEvent, devSignals, lastDefault,
                   prodRun, lastCallback, icId, icDlv, icDelivered,
                   lastCapture, devCall, inputsRef, listHeap, held, runPc,
                   stopV, lastFormat, vrState, vrDlvPc, vrAppend>>

\* self._recorderState = RecordingState, 60-61
VideoRecorder_record_state ==
    /\ vrCtlPc = "rec_state"
    /\ vrState' = RecordingState
    /\ vrCtlPc' = "idle"
    /\ UNCHANGED <<recorderState, writer, released, lastWriterId, writerArgs,
                   lock, actualLocation, outputLocation, cfgFrameRate,
                   cfgResolution, recSession, ctlPc, dlvPc, lastCall,
                   recSignals, wlog, lastAccess, recError, sessCamera,
                   sessArraySink, sessImageCapture, sessRecorder, mainPc,
                   sessSignals, camDevice, camSession, consumerSession,
                   frameQueue, consumerPc, consumerFrame, consumerLocal,
                   switchedAway, lastDelivery, sessError, sinkArray, sinkSize,
                   icSession, icImage, icCapturing, camActive, prodPc,
                   prodQuit, readyPending, consAlive, consQuit,
                   runningCameras, lastOp, lastCamCall, camSignals,
                   camThreadOps, vidImageCapture, vidRecorder, vidSink,
                   videoFrame, protoFrame, lastSetFrame, sdkCameras,
                   videoInputs, hpPc, hpEvent, devSignals, lastDefault,
                   prodRun, lastCallback, icId, icDlv, icDelivered,
                   lastCapture, devCall, inputsRef, listHeap, held, runPc,
                   stopV, lastFormat, vrWriter, vrClosed, vrLock, vrDlvPc,
                   vrAppend>>

\* pause(), 69-73
VideoRecorder_pause ==
    /\ vrCtlPc = "idle"
    /\ vrState' = IF vrState = RecordingState THEN PausedState ELSE vrState
    /\ UNCHANGED <<recorderState, writer, released, lastWriterId, writerArgs,
                   lock, actualLocation, outputLocation, cfgFrameRate,
                   cfgResolution, recSession, ctlPc, dlvPc, lastCall,
                   recSignals, wlog, lastAccess, recError, sessCamera,
                   sessArraySink, sessImageCapture, sessRecorder, mainPc,
                   sessSignals, camDevice, camSession, consumerSession,
                   frameQueue, consumerPc, consumerFrame, consumerLocal,
                   switchedAway, lastDelivery, sessError, sinkArray, sinkSize,
                   icSession, icImage, icCapturing, camActive, prodPc,
                   prodQuit, readyPending, consAlive, consQuit,
                   runningCameras, lastOp, lastCamCall, camSignals,
                   camThreadOps, vidImageCapture, vidRecorder, vidSink,
                   videoFrame, protoFrame, lastSetFrame, sdkCameras,
                   videoInputs, hpPc, hpEvent, devSignals, lastDefault,
                   prodRun, lastCallback, icId, icDlv, icDelivered,
                   lastCapture, devCall, inputsRef, listHeap, held, runPc,
                   stopV, lastFormat, vrWriter, vrClosed, vrLock, vrCtlPc,
                   vrDlvPc, vrAppend>>

\* stop(), 76-77: the test of the state
VideoRecorder_stop ==
    /\ vrCtlPc = "idle"
    /\ vrCtlPc' = IF vrState # StoppedState THEN "stop_lock" ELSE "idle"
    /\ UNCHANGED <<recorderState, writer, released, lastWriterId, writerArgs,
                   lock, actualLocation, outputLocation, cfgFrameRate,
                   cfgResolution, recSession, ctlPc, dlvPc, lastCall,
                   recSignals, wlog, lastAccess, recError, sessCamera,
                   sessArraySink, sessImageCapture, sessRecorder, mainPc,
                   sessSignals, camDevice, camSession, consumerSession,
                   frameQueue, consumerPc, consumerFrame, consumerLocal,
                   switchedAway, lastDelivery, sessError, sinkArray, sinkSize,
                   icSession, icImage, icCapturing, camActive, prodPc,
                   prodQuit, readyPending, consAlive, consQuit,
                   runningCameras, lastOp, lastCamCall, camSignals,
                   camThreadOps, vidImageCapture, vidRecorder, vidSink,
                   videoFrame, protoFrame, lastSetFrame, sdkCameras,
                   videoInputs, hpPc, hpEvent, devSignals, lastDefault,
                   prodRun, lastCallback, icId, icDlv, icDelivered,
                   lastCapture, devCall, inputsRef, listHeap, held, runPc,
                   stopV, lastFormat, vrState, vrWriter, vrClosed, vrLock,
                   vrDlvPc, vrAppend>>

\* self._lock.lock(), 78
VideoRecorder_stop_lock ==
    /\ vrCtlPc = "stop_lock"
    /\ vrLock = "free"
    /\ vrLock' = "ctl"
    /\ vrCtlPc' = "stop_close"
    /\ UNCHANGED <<recorderState, writer, released, lastWriterId, writerArgs,
                   lock, actualLocation, outputLocation, cfgFrameRate,
                   cfgResolution, recSession, ctlPc, dlvPc, lastCall,
                   recSignals, wlog, lastAccess, recError, sessCamera,
                   sessArraySink, sessImageCapture, sessRecorder, mainPc,
                   sessSignals, camDevice, camSession, consumerSession,
                   frameQueue, consumerPc, consumerFrame, consumerLocal,
                   switchedAway, lastDelivery, sessError, sinkArray, sinkSize,
                   icSession, icImage, icCapturing, camActive, prodPc,
                   prodQuit, readyPending, consAlive, consQuit,
                   runningCameras, lastOp, lastCamCall, camSignals,
                   camThreadOps, vidImageCapture, vidRecorder, vidSink,
                   videoFrame, protoFrame, lastSetFrame, sdkCameras,
                   videoInputs, hpPc, hpEvent, devSignals, lastDefault,
                   prodRun, lastCallback, icId, icDlv, icDelivered,
                   lastCapture, devCall, inputsRef, listHeap, held, runPc,
                   stopV, lastFormat, vrState, vrWriter, vrClosed, vrDlvPc,
                   vrAppend>>

\* self._writer.close(); self._writer = None; self._lock.unlock(), 79-81
VideoRecorder_stop_close ==
    /\ vrCtlPc = "stop_close"
    /\ vrClosed' = vrClosed \cup {vrWriter}
    /\ vrWriter' = None
    /\ vrLock' = "free"
    /\ vrCtlPc' = "stop_state"
    /\ UNCHANGED <<recorderState, writer, released, lastWriterId, writerArgs,
                   lock, actualLocation, outputLocation, cfgFrameRate,
                   cfgResolution, recSession, ctlPc, dlvPc, lastCall,
                   recSignals, wlog, lastAccess, recError, sessCamera,
                   sessArraySink, sessImageCapture, sessRecorder, mainPc,
                   sessSignals, camDevice, camSession, consumerSession,
                   frameQueue, consumerPc, consumerFrame, consumerLocal,
                   switchedAway, lastDelivery, sessError, sinkArray, sinkSize,
                   icSession, icImage, icCapturing, camActive, prodPc,
                   prodQuit, readyPending, consAlive, consQuit,
                   runningCameras, lastOp, lastCamCall, camSignals,
                   camThreadOps, vidImageCapture, vidRecorder, vidSink,
                   videoFrame, protoFrame, lastSetFrame, sdkCameras,
                   videoInputs, hpPc, hpEvent, devSignals, lastDefault,
                   prodRun, lastCallback, icId, icDlv, icDelivered,
                   lastCapture, devCall, inputsRef, listHeap, held, runPc,
                   stopV, lastFormat, vrState, vrDlvPc, vrAppend>>

\* self._recorderState = StoppedState, 83-84
VideoRecorder_stop_state ==
    /\ vrCtlPc = "stop_state"
    /\ vrState' = StoppedState
    /\ vrCtlPc' = "idle"
    /\ UNCHANGED <<recorderState, writer, released, lastWriterId, writerArgs,
                   lock, actualLocation, outputLocation, cfgFrameRate,
                   cfgResolution, recSession, ctlPc, dlvPc, lastCall,
                   recSignals, wlog, lastAccess, recError, sessCamera,
                   sessArraySink, sessImageCapture, sessRecorder, mainPc,
                   sessSignals, camDevice, camSession, consumerSession,
                   frameQueue, consumerPc, consumerFrame, consumerLocal,
                   switchedAway, lastDelivery, sessError, sinkArray, sinkSize,
                   icSession, icImage, icCapturing, camActive, prodPc,
                   prodQuit, readyPending, consAlive, consQuit,
                   runningCameras, lastOp, lastCamCall, camSignals,
                   camThreadOps, vidImageCapture, vidRecorder, vidSink,
                   videoFrame, protoFrame, lastSetFrame, sdkCameras,
                   videoInputs, hpPc, hpEvent, devSignals, lastDefault,
                   prodRun, lastCallback, icId, icDlv, icDelivered,
                   lastCapture, devCall, inputsRef, listHeap, held, runPc,
                   stopV, lastFormat, vrWriter, vrClosed, vrLock, vrDlvPc,
                   vrAppend>>

\* _setFrame, 88: self._lock.lock()
VideoRecorder_setFrame ==
    /\ vrDlvPc = "idle"
    /\ vrLock = "free"
    /\ vrLock' = "dlv"
    /\ vrDlvPc' = "check"
    /\ UNCHANGED <<recorderState, writer, released, lastWriterId, writerArgs,
                   lock, actualLocation, outputLocation, cfgFrameRate,
                   cfgResolution, recSession, ctlPc, dlvPc, lastCall,
                   recSignals, wlog, lastAccess, recError, sessCamera,
                   sessArraySink, sessImageCapture, sessRecorder, mainPc,
                   sessSignals, camDevice, camSession, consumerSession,
                   frameQueue, consumerPc, consumerFrame, consumerLocal,
                   switchedAway, lastDelivery, sessError, sinkArray, sinkSize,
                   icSession, icImage, icCapturing, camActive, prodPc,
                   prodQuit, readyPending, consAlive, consQuit,
                   runningCameras, lastOp, lastCamCall, camSignals,
                   camThreadOps, vidImageCapture, vidRecorder, vidSink,
                   videoFrame, protoFrame, lastSetFrame, sdkCameras,
                   videoInputs, hpPc, hpEvent, devSignals, lastDefault,
                   prodRun, lastCallback, icId, icDlv, icDelivered,
                   lastCapture, devCall, inputsRef, listHeap, held, runPc,
                   stopV, lastFormat, vrState, vrWriter, vrClosed, vrCtlPc,
                   vrAppend>>

\* if self._recorderState == RecordingState, 89
VideoRecorder_setFrame_check ==
    /\ vrDlvPc = "check"
    /\ vrDlvPc' = IF vrState = RecordingState THEN "append" ELSE "unlock"
    /\ UNCHANGED <<recorderState, writer, released, lastWriterId, writerArgs,
                   lock, actualLocation, outputLocation, cfgFrameRate,
                   cfgResolution, recSession, ctlPc, dlvPc, lastCall,
                   recSignals, wlog, lastAccess, recError, sessCamera,
                   sessArraySink, sessImageCapture, sessRecorder, mainPc,
                   sessSignals, camDevice, camSession, consumerSession,
                   frameQueue, consumerPc, consumerFrame, consumerLocal,
                   switchedAway, lastDelivery, sessError, sinkArray, sinkSize,
                   icSession, icImage, icCapturing, camActive, prodPc,
                   prodQuit, readyPending, consAlive, consQuit,
                   runningCameras, lastOp, lastCamCall, camSignals,
                   camThreadOps, vidImageCapture, vidRecorder, vidSink,
                   videoFrame, protoFrame, lastSetFrame, sdkCameras,
                   videoInputs, hpPc, hpEvent, devSignals, lastDefault,
                   prodRun, lastCallback, icId, icDlv, icDelivered,
                   lastCapture, devCall, inputsRef, listHeap, held, runPc,
                   stopV, lastFormat, vrState, vrWriter, vrClosed, vrLock,
                   vrCtlPc, vrAppend>>

\* self._writer.append_data(frame.as_opencv_image()), 90
VideoRecorder_setFrame_append ==
    /\ vrDlvPc = "append"
    /\ vrAppend' = [at |-> "called", writer |-> vrWriter,
                    open |-> vrWriter # None /\ vrWriter \notin vrClosed]
    /\ vrDlvPc' = "unlock"
    /\ UNCHANGED <<recorderState, writer, released, lastWriterId, writerArgs,
                   lock, actualLocation, outputLocation, cfgFrameRate,
                   cfgResolution, recSession, ctlPc, dlvPc, lastCall,
                   recSignals, wlog, lastAccess, recError, sessCamera,
                   sessArraySink, sessImageCapture, sessRecorder, mainPc,
                   sessSignals, camDevice, camSession, consumerSession,
                   frameQueue, consumerPc, consumerFrame, consumerLocal,
                   switchedAway, lastDelivery, sessError, sinkArray, sinkSize,
                   icSession, icImage, icCapturing, camActive, prodPc,
                   prodQuit, readyPending, consAlive, consQuit,
                   runningCameras, lastOp, lastCamCall, camSignals,
                   camThreadOps, vidImageCapture, vidRecorder, vidSink,
                   videoFrame, protoFrame, lastSetFrame, sdkCameras,
                   videoInputs, hpPc, hpEvent, devSignals, lastDefault,
                   prodRun, lastCallback, icId, icDlv, icDelivered,
                   lastCapture, devCall, inputsRef, listHeap, held, runPc,
                   stopV, lastFormat, vrState, vrWriter, vrClosed, vrLock,
                   vrCtlPc>>

\* self._lock.unlock(), 91
VideoRecorder_setFrame_unlock ==
    /\ vrDlvPc = "unlock"
    /\ vrLock' = "free"
    /\ vrDlvPc' = "idle"
    /\ UNCHANGED <<recorderState, writer, released, lastWriterId, writerArgs,
                   lock, actualLocation, outputLocation, cfgFrameRate,
                   cfgResolution, recSession, ctlPc, dlvPc, lastCall,
                   recSignals, wlog, lastAccess, recError, sessCamera,
                   sessArraySink, sessImageCapture, sessRecorder, mainPc,
                   sessSignals, camDevice, camSession, consumerSession,
                   frameQueue, consumerPc, consumerFrame, consumerLocal,
                   switchedAway, lastDelivery, sessError, sinkArray, sinkSize,
                   icSession, icImage, icCapturing, camActive, prodPc,
                   prodQuit, readyPending, consAlive, consQuit,
                   runningCameras, lastOp, lastCamCall, camSignals,
                   camThreadOps, vidImageCapture, vidRecorder, vidSink,
                   videoFrame, protoFrame, lastSetFrame, sdkCameras,
                   videoInputs, hpPc, hpEvent, devSignals, lastDefault,
                   prodRun, lastCallback, icId, icDlv, icDelivered,
                   lastCapture, devCall, inputsRef, listHeap, held, runPc,
                   stopV, lastFormat, vrState, vrWriter, vrClosed, vrCtlPc,
                   vrAppend>>

Init == RecInit /\ SessInit /\ CamInit /\ VidInit /\ DevInit /\ ExInit

RecNext ==
    \/ Recorder_record
    \/ Recorder_record_lock
    \/ Recorder_record_open
    \/ Recorder_record_state
    \/ Recorder_record_unlock
    \/ Recorder_record_emit
    \/ Recorder_record_resume
    \/ Recorder_emitState
    \/ Recorder_pause
    \/ Recorder_pause_set
    \/ Recorder_stop
    \/ Recorder_stop_lock
    \/ Recorder_stop_state
    \/ Recorder_stop_release
    \/ Recorder_stop_none
    \/ Recorder_stop_unlock
    \/ Recorder_setArray
    \/ Recorder_setArray_check
    \/ Recorder_setArray_write
    \/ Recorder_setArray_unlock
    \/ \E location \in Locations : Recorder_setOutputLocation(location)
    \/ \E recorder \in {None, TheRecorder} : Session_setRecorder(1, recorder)
    \/ \E c \in {None, 1} : Session_setCamera(1, c)
    \/ Session_setCamera_attach

SpecRec == Init /\ [][RecNext]_vars

RecCfgNext ==
    \/ Recorder_record
    \/ Recorder_record_lock
    \/ Recorder_record_open
    \/ Recorder_record_state
    \/ Recorder_record_unlock
    \/ Recorder_record_emit
    \/ Recorder_emitState
    \/ Recorder_stop
    \/ Recorder_stop_lock
    \/ Recorder_stop_state
    \/ Recorder_stop_release
    \/ Recorder_stop_none
    \/ Recorder_stop_unlock
    \/ \E fps \in FrameRates : Recorder_setVideoFrameRate(fps)
    \/ \E size \in Resolutions : Recorder_setVideoResolution(size)
    \/ \E recorder \in {None, TheRecorder} : Session_setRecorder(1, recorder)
    \/ \E c \in Cameras \cup {None} : Session_setCamera(1, c)
    \/ Session_setCamera_attach

SpecRecCfg == Init /\ [][RecCfgNext]_vars

\* The steps of the producer and consumer threads of the cameras.
ThreadNext ==
    \/ \E c \in Cameras : Producer_run(c)
    \/ \E c \in Cameras : Producer_exit(c)
    \/ \E c \in Cameras : Consumer_run(c)
    \/ \E c \in Cameras : Consumer_get(c)
    \/ \E c \in Cameras : Consumer_forward(c)
    \/ \E c \in Cameras : Consumer_return(c)
    \/ \E c \in Cameras : Consumer_exit(c)

\* start() and stop() on the cameras.
StartStopNext ==
    \/ \E c \in Cameras : Camera_start(c)
    \/ Camera_start_consumer
    \/ Camera_start_producer
    \/ Camera_start_ready
    \/ \E c \in Cameras : Camera_stop(c)
    \/ Camera_stop_consumer
    \/ Camera_stop_quit
    \/ Camera_stop_done

CamNext ==
    \/ StartStopNext
    \/ ThreadNext
    \/ \E c \in Cameras, status \in FrameStatus, size \in FrameSizes :
          Producer_queue_frame(c, status, size)

SpecCam == Init /\ [][CamNext]_vars

\* Every thread that can take a step takes one: the threads of the cameras
\* and the main thread inside start() and stop().  Nothing makes a caller
\* call start() or stop(), or a frame arrive.
CamFairness ==
    /\ \A c \in Cameras :
          /\ WF_vars(Producer_run(c))
          /\ WF_vars(Producer_exit(c))
          /\ WF_vars(Consumer_run(c))
          /\ WF_vars(Consumer_get(c))
          /\ WF_vars(Consumer_forward(c))
          /\ WF_vars(Consumer_return(c))
          /\ WF_vars(Consumer_exit(c))
    /\ WF_vars(Camera_start_consumer)
    /\ WF_vars(Camera_start_producer)
    /\ WF_vars(Camera_start_ready)
    /\ WF_vars(Camera_stop_consumer)
    /\ WF_vars(Camera_stop_quit)
    /\ WF_vars(Camera_stop_done)

SpecCamFair == Init /\ [][CamNext]_vars /\ CamFairness

\* A camera with an SDK whose calls can fail, and a session taking its
\* frames.
SdkNext ==
    \/ StartStopNext
    \/ ThreadNext
    \/ \E status \in FrameStatus, size \in FrameSizes :
          Producer_queue_frame(1, status, size)
    \/ \E c \in Cameras, stage \in FailStages : Producer_fail(c, stage)
    \/ \E c \in {1, None} : Session_setCamera(1, c)
    \/ Session_setCamera_attach

SpecSdk == Init /\ [][SdkNext]_vars

\* The cameras that are started and stream frames in SpecSess and SpecFan.
Producers == {1}

Max(S) == CHOOSE x \in S : \A y \in S : y <= x

\* The widths of the frames of camera c that are queued, held by the
\* consumer, or were handled last.
WidthsSeen(c) ==
    {0} \cup {frameQueue[c][i].size[1] : i \in 1..Len(frameQueue[c])}
        \cup {consumerFrame[c].size[1]}
        \cup {IF lastDelivery.cam = c THEN lastDelivery.size[1] ELSE 0}

NextFrame(c) == <<Max(WidthsSeen(c)) + 1, 1>>

\* One camera capturing numbered frames over start/stop cycles, with a
\* session that takes and leaves it.
OrderNext ==
    \/ \E c \in Producers : Camera_start(c)
    \/ Camera_start_consumer
    \/ Camera_start_producer
    \/ Camera_start_ready
    \/ \E c \in Producers : Camera_stop(c)
    \/ Camera_stop_consumer
    \/ Camera_stop_quit
    \/ Camera_stop_done
    \/ ThreadNext
    \/ \E c \in Producers, status \in FrameStatus :
          /\ NextFrame(c)[1] <= MaxFrames
          /\ Producer_queue_frame(c, status, NextFrame(c))
    \/ \E c \in Producers \cup {None} : Session_setCamera(1, c)
    \/ Session_setCamera_attach

SpecOrder == Init /\ [][OrderNext]_vars

\* The image capture: captureToFile in the main thread against the thread
\* that delivers frames, with the session taking and leaving the capture.
CaptureNext ==
    \/ \E imageCapture \in {None, TheImageCapture} :
          Session_setImageCapture(1, imageCapture)
    \/ ImageCapture_captureToFile
    \/ ImageCapture_capture_flag
    \/ ImageCapture_capture_write
    \/ ImageCapture_capture_clear
    \/ ImageCapture_capture_return
    \/ ImageCapture_setArray
    \/ ImageCapture_setArray_assign

SpecCapture == Init /\ [][CaptureNext]_vars

\* One camera whose device is switched, started and stopped, with a
\* session taking and leaving it.
SwitchNext ==
    \/ \E device \in DeviceArgs : Camera_setCameraDevice(1, device)
    \/ Camera_setCameraDevice_swap
    \/ Camera_setCameraDevice_return
    \/ \E c \in Producers : Camera_start(c)
    \/ Camera_start_consumer
    \/ Camera_start_producer
    \/ Camera_start_ready
    \/ \E c \in Producers : Camera_stop(c)
    \/ Camera_stop_consumer
    \/ Camera_stop_quit
    \/ Camera_stop_done
    \/ ThreadNext
    \/ \E c \in Producers, size \in FrameSizes :
          Producer_queue_frame(c, "Complete", size)
    \/ \E c \in Producers \cup {None} : Session_setCamera(1, c)
    \/ Session_setCamera_attach

SpecSwitch == Init /\ [][SwitchNext]_vars

\* The recorder among everything that goes on around it: its session and
\* camera, start() and stop(), a device switch, a camera that goes missing
\* and its own setters, with _setArray called at any time by the thread that
\* delivers frames.  One recording is made, and what goes on around it
\* starts while it is being made, one kind of disturbance in a run: the
\* setters, or the session letting go of camera or recorder, or the camera
\* started and stopped together with either a device switch or SDK events.
InRecording == recorderState # StoppedState

SettersUnused ==
    /\ cfgFrameRate = 0
    /\ cfgResolution = <<-1, -1>>
    /\ outputLocation = NoLocation

CameraUnused == \A c \in Cameras : lastOp[c] = "none"

Attached == sessCamera[1] = 1 /\ sessRecorder[1] = TheRecorder

Undisturbed ==
    /\ InRecording
    /\ CameraUnused
    /\ hpEvent = NoEvent
    /\ devCall = NoDevCall

MaySet == Undisturbed /\ Attached

MayDetach == Undisturbed /\ SettersUnused

MayRun == InRecording /\ SettersUnused /\ Attached

MaySwitch == MayRun /\ hpEvent = NoEvent

MayUnplug == MayRun /\ devCall = NoDevCall

RecAllNext ==
    \/ (lastWriterId = 2 \/ InRecording) /\ Recorder_record
    \/ Recorder_record_lock
    \/ Recorder_record_open
    \/ Recorder_record_state
    \/ Recorder_record_unlock
    \/ Recorder_record_emit
    \/ Recorder_record_resume
    \/ Recorder_emitState
    \/ Recorder_pause
    \/ Recorder_pause_set
    \/ Recorder_stop
    \/ Recorder_stop_lock
    \/ Recorder_stop_state
    \/ Recorder_stop_release
    \/ Recorder_stop_none
    \/ Recorder_stop_unlock
    \/ Recorder_setArray
    \/ Recorder_setArray_check
    \/ Recorder_setArray_write
    \/ Recorder_setArray_unlock
    \/ MaySet /\ \E location \in Locations :
                    Recorder_setOutputLocation(location)
    \/ MaySet /\ \E fps \in {25} : Recorder_setVideoFrameRate(fps)
    \/ MaySet /\ \E size \in {<<640, 480>>} :
                    Recorder_setVideoResolution(size)
    \/ Session_setRecorder(1, TheRecorder)
    \/ MayDetach /\ Session_setRecorder(1, None)
    \/ \E c \in Producers : Session_setCamera(1, c)
    \/ MayDetach /\ Session_setCamera(1, None)
    \/ Session_setCamera_attach
    \/ MayRun /\ \E c \in Producers : Camera_start(c)
    \/ Camera_start_consumer
    \/ Camera_start_producer
    \/ Camera_start_ready
    \/ MayRun /\ \E c \in Producers : Camera_stop(c)
    \/ Camera_stop_consumer
    \/ Camera_stop_quit
    \/ Camera_stop_done
    \/ \E c \in Producers : Producer_run(c)
    \/ \E c \in Producers : Producer_exit(c)
    \/ \E c \in Producers : Consumer_run(c)
    \/ \E c \in Producers : Consumer_return(c)
    \/ \E c \in Producers : Consumer_exit(c)
    \/ MaySwitch /\ \E device \in {"color"} :
                       Camera_setCameraDevice(1, device)
    \/ Camera_setCameraDevice_swap
    \/ Camera_setCameraDevice_return
    \/ MayUnplug /\ \E event \in CameraEvents :
                       Sdk_cameraEvent("mono", event)
    \/ HotPlug_stopCamera
    \/ HotPlug_updateCameras
    \/ HotPlug_ignore

SpecRecAll == Init /\ [][RecAllNext]_vars

SessNext ==
    \/ \E s \in Sessions, c \in Cameras \cup {None} : Session_setCamera(s, c)
    \/ Session_setCamera_attach
    \/ \E c \in Producers : Camera_start(c)
    \/ Camera_start_consumer
    \/ Camera_start_producer
    \/ Camera_start_ready
    \/ \E c \in Producers : Camera_stop(c)
    \/ Camera_stop_consumer
    \/ Camera_stop_quit
    \/ Camera_stop_done
    \/ ThreadNext
    \/ \E c \in Producers, size \in FrameSizes :
          Producer_queue_frame(c, "Complete", size)

SpecSess == Init /\ [][SessNext]_vars

\* The video frames of SpecFan.
FanFormats == {"Bgr8"}
FanData == {1}

FanNext ==
    \/ \E c \in Producers : Session_setCamera(1, c)
    \/ Session_setCamera_attach
    \/ \E sink \in {None, TheArraySink} : Session_setArraySink(1, sink)
    \/ \E imageCapture \in {None, TheImageCapture} :
          Session_setImageCapture(1, imageCapture)
    \/ \E recorder \in {None, TheRecorder} : Session_setRecorder(1, recorder)
    \/ \E c \in Producers : Camera_start(c)
    \/ Camera_start_consumer
    \/ Camera_start_producer
    \/ Camera_start_ready
    \/ \E c \in Producers : Producer_run(c)
    \/ \E c \in Producers : Consumer_run(c)
    \/ \E c \in Producers : Consumer_get(c)
    \/ \E c \in Producers : Consumer_forward(c)
    \/ \E c \in Producers : Consumer_recorder(c)
    \/ \E c \in Producers : Consumer_recorder_done(c)
    \/ Recorder_setArray_check
    \/ Recorder_setArray_unlock
    \/ \E c \in Producers, size \in FrameSizes :
          Producer_queue_frame(c, "Complete", size)
    \/ \E fmt \in FanFormats, data \in FanData :
          VideoSession_setFrame(fmt, data)

SpecFan == Init /\ [][FanNext]_vars

VideoNext ==
    \/ \E sink \in {None, 1} : VideoSession_setVideoSink(sink)
    \/ \E imageCapture \in {None, 1} :
          VideoSession_setImageCapture(imageCapture)
    \/ \E recorder \in {None, 1} : VideoSession_setRecorder(recorder)
    \/ \E fmt \in VimbaFormats, data \in FrameData :
          VideoSession_setFrame(fmt, data)

SpecVideo == Init /\ [][VideoNext]_vars
(***************************************************************************)
(* Claims about the recorder, checked under SpecRec                        *)
(***************************************************************************)
RecorderCalls == {"record", "pause", "stop"}

\* The registry, the SDK's camera events and a reader of videoInputs() on
\* another thread.
ListNext ==
    \/ \E camera \in SdkCameras, event \in CameraEvents :
          Sdk_cameraEvent(camera, event)
    \/ HotPlug_updateCameras
    \/ HotPlug_ignore
    \/ Devices_videoInputs
    \/ Devices_videoInputs_release
    \/ Devices_defaultVideoInput

SpecList == Init /\ [][ListNext]_vars

\* The runner with its cameras: start(), stop(), stopVimba() and the thread
\* of runVimba.
VimbaNext ==
    \/ StartStopNext
    \/ \E c \in Cameras : Producer_run(c)
    \/ \E c \in Cameras : Producer_exit(c)
    \/ \E c \in Cameras : Consumer_run(c)
    \/ \E c \in Cameras : Consumer_return(c)
    \/ \E c \in Cameras : Consumer_exit(c)
    \/ Runner_run_exec
    \/ Runner_run_finally
    \/ Runner_stopVimba
    \/ Runner_stopVimba_pop
    \/ Runner_stopVimba_next
    \/ Runner_stopVimba_quit

SpecVimba == Init /\ [][VimbaNext]_vars

\* The thread of runVimba runs whenever it can, and so does a stopVimba
\* call that was made.
VimbaFairness ==
    /\ WF_vars(Runner_run_exec)
    /\ WF_vars(Runner_run_finally)
    /\ WF_vars(Runner_stopVimba_pop)
    /\ WF_vars(Runner_stopVimba_next)
    /\ WF_vars(Runner_stopVimba_quit)

SpecVimbaFair == SpecVimba /\ VimbaFairness

\* The sizes of the frames given to the ArraySink.
SinkSizes == {<<640, 480>>, <<1280, 960>>}

\* The ArraySink of a session whose camera delivers frames of two sizes.
SinkNext ==
    \/ \E sink \in {None, TheArraySink} : Session_setArraySink(1, sink)
    \/ \E c \in Producers : Session_setCamera(1, c)
    \/ Session_setCamera_attach
    \/ \E c \in Producers : Camera_start(c)
    \/ Camera_start_consumer
    \/ Camera_start_producer
    \/ Camera_start_ready
    \/ \E c \in Producers : Producer_run(c)
    \/ \E c \in Producers : Consumer_run(c)
    \/ \E c \in Producers : Consumer_get(c)
    \/ \E c \in Producers : Consumer_forward(c)
    \/ \E c \in Producers, size \in SinkSizes :
          Producer_queue_frame(c, "Complete", size)

SpecSink == Init /\ [][SinkNext]_vars

\* cameraFormat() on cameras that are given other devices.
FormatNext ==
    \/ \E c \in Cameras, fps \in FeatureRates, pf \in FeaturePixelFormats,
          w \in FeatureWidths, h \in FeatureHeights :
          Camera_cameraFormat(c, fps, pf, w, h)
    \/ \E device \in DeviceArgs : Camera_setCameraDevice(1, device)
    \/ Camera_setCameraDevice_swap

SpecFormat == Init /\ [][FormatNext]_vars

\* The VideoRecorder of the example with its two threads.
ExampleNext ==
    \/ \E ready \in BOOLEAN : VideoRecorder_record(ready)
    \/ VideoRecorder_record_lock
    \/ VideoRecorder_record_open
    \/ VideoRecorder_record_state
    \/ VideoRecorder_pause
    \/ VideoRecorder_stop
    \/ VideoRecorder_stop_lock
    \/ VideoRecorder_stop_close
    \/ VideoRecorder_stop_state
    \/ VideoRecorder_setFrame
    \/ VideoRecorder_setFrame_check
    \/ VideoRecorder_setFrame_append
    \/ VideoRecorder_setFrame_unlock

SpecExample == Init /\ [][ExampleNext]_vars

\* Two cameras that are started, stopped and given other devices while the
\* SDK reports cameras missing and detected, and stopVimba at the end.  A
\* call of the main thread is made when no camera event is being handled.
HotNext ==
    \/ hpPc = "idle" /\ \E c \in Cameras : Camera_start(c)
    \/ Camera_start_consumer
    \/ Camera_start_producer
    \/ Camera_start_ready
    \/ hpPc = "idle" /\ \E c \in Cameras : Camera_stop(c)
    \/ Camera_stop_consumer
    \/ Camera_stop_quit
    \/ Camera_stop_done
    \/ hpPc = "idle" /\ \E device \in Devices : Camera_setCameraDevice(1, device)
    \/ Camera_setCameraDevice_swap
    \/ Camera_setCameraDevice_return
    \/ \E c \in Cameras : Producer_run(c)
    \/ \E c \in Cameras : Producer_exit(c)
    \/ \E c \in Cameras : Consumer_run(c)
    \/ \E c \in Cameras : Consumer_return(c)
    \/ \E c \in Cameras : Consumer_exit(c)
    \/ \E camera \in SdkCameras, event \in {"Missing", "Detected"} :
          Sdk_cameraEvent(camera, event)
    \/ HotPlug_stopCamera
    \/ HotPlug_updateCameras
    \/ hpPc = "idle" /\ Runner_stopVimba
    \/ Runner_stopVimba_pop
    \/ Runner_stopVimba_next
    \/ Runner_stopVimba_quit

SpecHot == Init /\ [][HotNext]_vars

\* The size of the frames of a device: the two cameras have sensors of
\* different sizes, so that a frame shows the device it was captured from.
SensorSize(dev) == IF dev = "mono" THEN <<640, 480>> ELSE <<1280, 960>>

\* A camera that is switched between devices while it streams frames of the
\* device it has.
StaleNext ==
    \/ \E device \in DeviceArgs : Camera_setCameraDevice(1, device)
    \/ Camera_setCameraDevice_swap
    \/ Camera_setCameraDevice_return
    \/ \E c \in Producers : Camera_start(c)
    \/ Camera_start_consumer
    \/ Camera_start_producer
    \/ Camera_start_ready
    \/ \E c \in Producers : Camera_stop(c)
    \/ Camera_stop_consumer
    \/ Camera_stop_quit
    \/ Camera_stop_done
    \/ ThreadNext
    \/ \E c \in Producers :
          Producer_queue_frame(c, "Complete", SensorSize(camDevice[c]))
    \/ \E c \in Producers \cup {None} : Session_setCamera(1, c)
    \/ Session_setCamera_attach

SpecStale == Init /\ [][StaleNext]_vars

\* The recorder with its configuration, getting a session and the session a
\* camera, which is given the null device and the device mono.
RecFailNext ==
    \/ Recorder_record
    \/ Recorder_record_lock
    \/ Recorder_record_open
    \/ Recorder_record_state
    \/ Recorder_record_unlock
    \/ Recorder_record_emit
    \/ Recorder_emitState
    \/ Recorder_stop
    \/ Recorder_stop_lock
    \/ Recorder_stop_state
    \/ Recorder_stop_release
    \/ Recorder_stop_none
    \/ Recorder_stop_unlock
    \/ \E fps \in FrameRates : Recorder_setVideoFrameRate(fps)
    \/ \E size \in Resolutions : Recorder_setVideoResolution(size)
    \/ \E location \in Locations : Recorder_setOutputLocation(location)
    \/ Session_setRecorder(1, TheRecorder)
    \/ Session_setCamera(1, 1)
    \/ Session_setCamera_attach
    \/ \E device \in {"mono", NullDevice} : Camera_setCameraDevice(1, device)
    \/ Camera_setCameraDevice_swap

SpecRecFail == Init /\ [][RecFailNext]_vars

\* Two sessions that are given the image capture and the recorder, the
\* first of them having the camera that delivers frames.
OwnerNext ==
    \/ Session_setCamera(1, 1)
    \/ Session_setCamera_attach
    \/ \E s \in Sessions, imageCapture \in {None, TheImageCapture} :
          Session_setImageCapture(s, imageCapture)
    \/ \E s \in Sessions, recorder \in {None, TheRecorder} :
          Session_setRecorder(s, recorder)
    \/ \E c \in Producers : Camera_start(c)
    \/ Camera_start_consumer
    \/ Camera_start_producer
    \/ Camera_start_ready
    \/ \E c \in Producers : Producer_run(c)
    \/ \E c \in Producers : Consumer_run(c)
    \/ \E c \in Producers : Consumer_get(c)
    \/ \E c \in Producers : Consumer_forward(c)
    \/ \E c \in Producers : Consumer_recorder(c)
    \/ \E c \in Producers : Consumer_recorder_done(c)
    \/ Recorder_setArray_check
    \/ Recorder_setArray_unlock
    \/ \E c \in Producers, size \in FrameSizes :
          Producer_queue_frame(c, "Complete", size)

SpecOwner == Init /\ [][OwnerNext]_vars

DevNext ==
    \/ Devices_defaultVideoInput
    \/ \E camera \in SdkCameras, event \in CameraEvents :
          Sdk_cameraEvent(camera, event)
    \/ HotPlug_stopCamera
    \/ HotPlug_updateCameras
    \/ HotPlug_ignore
    \/ \E c \in Producers : Camera_start(c)
    \/ Camera_start_consumer
    \/ Camera_start_producer
    \/ Camera_start_ready
    \/ \E c \in Producers : Camera_stop(c)
    \/ Camera_stop_consumer
    \/ Camera_stop_quit
    \/ Camera_stop_done
    \/ ThreadNext
    \/ \E c \in Producers, size \in FrameSizes :
          Producer_queue_frame(c, "Complete", size)

SpecDev == Init /\ [][DevNext]_vars

\* The state changes the recorder is allowed, each with the call making it.
RecorderEdges ==
    {<<"record", StoppedState, RecordingState>>,
     <<"pause", RecordingState, PausedState>>,
     <<"record", PausedState, RecordingState>>,
     <<"stop", RecordingState, StoppedState>>,
     <<"stop", PausedState, StoppedState>>}

\* The states carried by the recorderStateChanged signals of the last call.
StateEmits ==
    LET f == SelectSeq(recSignals, LAMBDA sig : sig[1] = "recorderStateChanged")
    IN  [i \in 1..Len(f) |-> f[i][2]]

\* C2: over any sequence of record()/pause()/stop() calls the recorder state
\* changes only along Stopped->Recording (record), Recording->Paused
\* (pause), Paused->Recording (record), Recording->Stopped and
\* Paused->Stopped (stop), and a call that has returned emitted
\* recorderStateChanged exactly once, with the new state, if it changed the
\* state, and not at all otherwise.
C2_RecorderTransitions ==
    [][ /\ recorderState' # recorderState =>
              <<lastCall.op, recorderState, recorderState'>> \in RecorderEdges
        /\ (ctlPc' = "idle" /\ lastCall'.op \in RecorderCalls) =>
              StateEmits' = IF recorderState' # lastCall'.state
                            THEN <<recorderState'>> ELSE <<>> ]_vars

\* C2 witness: a stop() called in PausedState has returned, the state is
\* Stopped and the one signal of the call carries Stopped.
C2_Witness ==
    /\ ctlPc = "idle"
    /\ mainPc.at = "idle"
    /\ lastCall.op = "stop"
    /\ lastCall.state = PausedState
    /\ recorderState = StoppedState
    /\ recSignals = <<<<"recorderStateChanged", StoppedState>>>>

\* The last call was record() in Recording, or pause()/stop() in Stopped.
NoOpCall ==
    \/ lastCall.op = "record" /\ lastCall.state = RecordingState
    \/ lastCall.op \in {"pause", "stop"} /\ lastCall.state = StoppedState

\* C3: record() called while Recording, and pause() or stop() called while
\* Stopped, leave the recorder state, the writer and the actual location as
\* they were, release no writer and emit no signal.
C3_NoOpCalls ==
    (ctlPc = "idle" /\ NoOpCall) =>
        /\ recorderState = lastCall.state
        /\ writer = lastCall.writer
        /\ writer \notin released
        /\ actualLocation = lastCall.location
        /\ recSignals = <<>>
        /\ ~recError

\* C3 witness: record() was called while Recording, on an open writer, and
\* has returned.
C3_Witness ==
    /\ ctlPc = "idle"
    /\ mainPc.at = "idle"
    /\ lastCall.op = "record"
    /\ lastCall.state = RecordingState
    /\ writer # None

\* C4: for every interleaving of frame delivery with record()/stop(), a
\* frame is never written to a writer that is None or already released.
C4_WriteToOpenWriter ==
    /\ wlog.state # "none" => (wlog.target # None /\ wlog.open)
    /\ ~recError

\* C4 witness: the delivery thread has written a frame to the open writer
\* under the mutex while stop() waits for that mutex.
C4_Witness ==
    /\ dlvPc = "d_unlock"
    /\ ctlPc = "stop_lock"
    /\ wlog.target = writer
    /\ wlog.open
    /\ lock = "dlv"

\* C5: a frame is appended to the writer only while the recorder state is
\* Recording, never while it is Paused or Stopped.
C5_AppendOnlyWhileRecording ==
    wlog.state \in {"none", RecordingState}

\* C6: every read or write of the state and of the writer made by record(),
\* pause(), stop() and frame delivery happens with the mutex held by the
\* thread making it.
C6_AccessUnderMutex ==
    lastAccess.locked

(***************************************************************************)
(* VimbaCamera.start() and stop(), checked under SpecCam                   *)
(***************************************************************************)
\* The last start()/stop() call found the camera already in the state it
\* asks for.
NoChangeCall == lastCamCall.active = (lastCamCall.op = "start")

\* C1: for every sequence of start()/stop() calls on a VimbaCamera bound to
\* a non-null device, isActive() after each call is true exactly when the
\* last call was start(); a start() on an active camera and a stop() on an
\* inactive one change nothing (no thread operation, no entry added to the
\* runner's running list, no activeChanged), and every real change emits
\* activeChanged exactly once with the new value.
C1_StartStopIdempotent ==
    mainPc.at = "idle" =>
        /\ \A c \in Cameras :
              (camDevice[c] # NullDevice /\ lastOp[c] # "none")
                 => (camActive[c] <=> lastOp[c] = "start")
        /\ (lastCamCall.op # "none"
            /\ camDevice[lastCamCall.cam] # NullDevice) =>
              IF NoChangeCall
              THEN /\ camSignals = <<>>
                   /\ camThreadOps = <<>>
                   /\ runningCameras = lastCamCall.running
              ELSE camSignals
                      = << <<"activeChanged", lastCamCall.op = "start">> >>

\* C1 witness: start() has returned on a camera that was already active,
\* the other camera having been started and stopped before.
C1_Witness ==
    /\ mainPc.at = "idle"
    /\ lastCamCall.op = "start"
    /\ lastCamCall.active
    /\ camActive[lastCamCall.cam]
    /\ camSignals = <<>>
    /\ \E c \in Cameras : lastOp[c] = "stop" /\ ~camActive[c]

(***************************************************************************)
(* Capture sessions and cameras, checked under SpecSess                    *)
(***************************************************************************)
\* C7: after any sequence of setCamera calls over several capture sessions
\* and cameras, each camera is camera() of at most one capture session, and
\* S.camera() == c holds exactly when c.captureSession() == S.
C7_CameraSessionAgree ==
    mainPc.at = "idle" =>
        /\ \A c \in Cameras :
              Cardinality({s \in Sessions : sessCamera[s] = c}) <= 1
        /\ \A s \in Sessions, c \in Cameras :
              sessCamera[s] = c <=> camSession[c] = s

\* The step in which S.setCamera(c2) returns, S having had camera c1.
SetCameraReturns(S, c1, c2) ==
    /\ mainPc.at = "setCamera"
    /\ mainPc'.at = "idle"
    /\ mainPc.s = S
    /\ mainPc.c = c2
    /\ sessCamera[S] = c1

\* C8: after S.setCamera(c2) on a session whose camera was c1, c1 other
\* than c2, c1.captureSession() is None, and no frame that c1 captures from
\* then on, until S takes c1 again, is handed to S.
C8_OldCameraDetached ==
    [][ /\ \A S \in Sessions, c1 \in Cameras, c2 \in Cameras \cup {None} :
              (c1 # c2 /\ SetCameraReturns(S, c1, c2))
                 => (camSession'[c1] = None /\ consumerSession'[c1] = None)
        /\ lastDelivery'.sess \notin lastDelivery'.after ]_vars

\* C8 witness: session 1 went from camera 1 to camera 2, session 2 took
\* camera 1, and a frame camera 1 captured after that went to session 2.
C8_Witness ==
    /\ sessCamera[1] = 2
    /\ lastDelivery.cam = 1
    /\ lastDelivery.sess = 2
    /\ 1 \in lastDelivery.after

(***************************************************************************)
(* The fan-out of frames, checked under SpecFan and SpecVideo              *)
(***************************************************************************)
\* What a frame may change: the sessions, their sinks and the recorder.
SinkSide ==
    <<sessCamera, sessArraySink, sessImageCapture, sessRecorder, camSession,
      sessSignals, sinkArray, sinkSize, icSession, icImage, icCapturing,
      recVars, sessError, vidImageCapture, vidRecorder, vidSink, videoFrame,
      protoFrame>>

\* Nothing is registered on session s.
NoSinks(s) ==
    /\ sessArraySink[s] = None
    /\ sessImageCapture[s] = None
    /\ sessRecorder[s] = None

\* C9: a frame delivered while the camera has no capture session, or while
\* its session has no array sink, no image capture and no recorder, changes
\* no state of the session, emits no signal and raises no error; the same
\* for _setFrame on a session with no image capture, recorder or video sink.
C9_UnclaimedFrameDiscarded ==
    [][ /\ \A c \in Cameras :
              (/\ Consumer_forward(c)
               /\ consumerLocal[c] # None => NoSinks(consumerLocal[c]))
                 => /\ UNCHANGED SinkSide
                    /\ ~sessError'
                    /\ lastDelivery'.calls = <<>>
                    /\ lastDelivery'.signals = <<>>
                    /\ consumerPc'[c] = "get"
        /\ \A fmt \in VimbaFormats, data \in FrameData :
              (/\ VideoSession_setFrame(fmt, data)
               /\ vidImageCapture = None
               /\ vidRecorder = None
               /\ vidSink = None)
                 => /\ UNCHANGED SinkSide
                    /\ ~sessError'
                    /\ lastSetFrame'.calls = <<>> ]_vars

\* C9 witness: an array sink holds an earlier frame, the session has no
\* sink any more, and the consumer has dropped a later frame there.
C9_Witness ==
    /\ lastDelivery.cam = 1
    /\ lastDelivery.sess = 1
    /\ lastDelivery.calls = <<>>
    /\ NoSinks(1)
    /\ sinkArray # NoFrame
    /\ lastSetFrame # NoSetFrame

\* The formats COMPATIBLE_FORMATS has no entry for.
Unsupported(fmt) == fmt \notin {"Mono8", "Mono16"}

C11_DefaultIsFirstOrNull ==
    /\ lastDefault.inputs # <<>> => lastDefault.ret = lastDefault.inputs[1]
    /\ lastDefault.inputs = <<>> => isNull(lastDefault.ret)
    /\ lastDefault.ret \in Devices

\* C11 witness: defaultVideoInput() was called on the list [color, mono],
\* which two hot-plug events have left in that order.
C11_Witness ==
    /\ lastDefault.inputs = <<"color", "mono">>
    /\ lastDefault.ret = "color"

\* The step in which cameraChangeHandler returns.
HandlerReturns == hpPc # "idle" /\ hpPc' = "idle"

\* C12: after every handled Detected or Missing event the registry list
\* equals, in order, the cameras the SDK enumerates then, and
\* videoInputsChanged is emitted; with the list [A, B], after the Missing
\* event of A the list is [B] and defaultVideoInput() returns B.
C12_RegistryFollowsSdk ==
    [][ (HandlerReturns /\ hpEvent.event \in {"Missing", "Detected"}) =>
           /\ videoInputs' = sdkCameras'
           /\ devSignals' = <<"videoInputsChanged">>
           /\ \A A \in SdkCameras, B \in SdkCameras :
                 (/\ videoInputs = <<A, B>>
                  /\ hpEvent = [camera |-> A, event |-> "Missing"])
                    => /\ videoInputs' = <<B>>
                       /\ defaultVideoInput' = B ]_vars

\* C12 witness: the list was [mono, color]; camera 1, bound to mono, was
\* active; the Missing event of mono has been handled: the camera is
\* stopped and the list is [color].
C12_Witness ==
    /\ hpPc = "idle"
    /\ hpEvent = [camera |-> "mono", event |-> "Missing"]
    /\ videoInputs = <<"color">>
    /\ defaultVideoInput = "color"
    /\ lastOp[1] = "stop"
    /\ ~camActive[1]
    /\ camSignals = << <<"activeChanged", FALSE>> >>

(***************************************************************************)
(* The configuration of the recorder, checked under SpecRecCfg             *)
(***************************************************************************)
\* The step in which record() opens its writer.
WriterOpens == ctlPc = "rec_open" /\ ctlPc' = "rec_state"

\* The device of the camera of the recorder's session.
SessionDevice == camDevice[sessCamera[recSession]]

\* C13: when record() opens a writer from the Stopped state, the writer's
\* frame rate is videoFrameRate() if that is positive and the camera
\* device's frame rate otherwise, and its size is videoResolution() if both
\* dimensions are positive and the camera device's resolution otherwise,
\* each chosen by itself: 640x480 with fps 0 on a 30 fps camera gives fps 30
\* and size 640x480.
C13_WriterRateAndSize ==
    [][ WriterOpens =>
           /\ cfgFrameRate > 0 => writerArgs'.fps = cfgFrameRate
           /\ cfgFrameRate <= 0 => writerArgs'.fps = frameRate(SessionDevice)
           /\ (cfgResolution[1] > 0 /\ cfgResolution[2] > 0)
                 => writerArgs'.size = cfgResolution
           /\ (cfgResolution[1] <= 0 \/ cfgResolution[2] <= 0)
                 => writerArgs'.size = resolution(SessionDevice)
           /\ (cfgFrameRate = 0 /\ cfgResolution = <<640, 480>>
               /\ frameRate(SessionDevice) = 30)
                 => (writerArgs'.fps = 30 /\ writerArgs'.size = <<640, 480>>)
      ]_vars

\* C13 witness: a writer is open at fps 30 and size 640x480, the recorder
\* being configured with fps 0 and resolution 640x480.
C13_Witness ==
    /\ writer # None
    /\ recorderState = RecordingState
    /\ ctlPc = "idle"
    /\ cfgFrameRate = 0
    /\ cfgResolution = <<640, 480>>
    /\ writerArgs.fps = 30
    /\ writerArgs.size = <<640, 480>>

(***************************************************************************)
(* The frame queue, checked under SpecCam                                  *)
(***************************************************************************)
\* C14: the frame queue between FrameProducer and FrameConsumer has a fixed
\* capacity that the number of queued frames never exceeds, complete
\* frames arriving at capacity being dropped: whatever the capacity, the
\* queue stays below the length up to which the model follows it.
C14_QueueBounded ==
    \A c \in Cameras : Len(frameQueue[c]) < MaxQueue

(***************************************************************************)
(* C15: if opening the camera or start_streaming fails in the FrameProducer *)
(* thread, the thread still emits ready, so that the start() waiting for    *)
(* it returns: whenever start() waits for ready and the run of the          *)
(* producer thread it started has ended, the ready signal is there.         *)
(***************************************************************************)
C15_ReadyAfterFailedRun ==
    \A c \in Cameras :
        (mainPc.at = "wait_ready" /\ mainPc.c = c /\ prodPc[c] = "off")
            => readyPending[c]

(***************************************************************************)
(* C16: start() does not complete before streaming has started: in the     *)
(* step in which the active flag of a camera becomes true and              *)
(* activeChanged(True) is emitted, the run of the FrameProducer thread that *)
(* this start() began has returned from a successful start_streaming.      *)
(***************************************************************************)
BecomesActive(c) ==
    /\ ~camActive[c]
    /\ camActive'[c]
    /\ camSignals' = Append(camSignals, <<"activeChanged", TRUE>>)

C16_ActiveAfterStreaming ==
    [][ \A c \in Cameras :
          /\ BecomesActive(c) => prodRun[c].started /\ prodRun'[c].started
          /\ (camActive'[c] /\ ~camActive[c]) => BecomesActive(c) ]_vars

C16_Witness ==
    /\ Idle
    /\ lastOp[2] = "start"
    /\ camActive[2]
    /\ runningCameras = <<2>>
    /\ camSignals = << <<"activeChanged", TRUE>> >>
    /\ prodRun[2] = [NoRun EXCEPT !.reached = TRUE, !.started = TRUE,
                                  !.ready = TRUE]
    /\ prodRun[1].failed = "exec"
    /\ lastOp[1] = "stop"

(***************************************************************************)
(* C17: every run of the FrameProducer thread that reached start_streaming *)
(* has called stop_streaming when the thread has ended, after a normal     *)
(* stop as after an SDK error; and once stop() has returned on a camera,   *)
(* its threads have ended and no frame of it is forwarded to a capture     *)
(* session until the next start().                                         *)
(***************************************************************************)
InStop(c) ==
    /\ mainPc.c = c
    /\ mainPc.at \in {"stop_wait_producer", "stop_quit_consumer",
                      "stop_wait_consumer"}

StopReturned(c) == lastOp[c] = "stop" /\ ~InStop(c)

Forwards(c) ==
    /\ consumerPc[c] = "forward"
    /\ consumerLocal[c] # None
    /\ consumerPc'[c] # "forward"

C17_StreamingStopped ==
    [][ \A c \in Cameras :
          /\ (prodPc'[c] = "off" /\ prodRun'[c].reached)
                 => prodRun'[c].stopped
          /\ StopReturned(c)
                 => /\ ~Forwards(c)
                    /\ prodPc[c] = "off"
                    /\ consumerPc[c] = "off" ]_vars

C17_Witness ==
    /\ Idle
    /\ StopReturned(1)
    /\ lastCamCall.op = "stop" /\ lastCamCall.cam = 1 /\ lastCamCall.active
    /\ prodRun[1] = [NoRun EXCEPT !.reached = TRUE, !.started = TRUE,
                                  !.ready = TRUE, !.stopped = TRUE,
                                  !.failed = "exec"]
    /\ consumerSession[1] = 1
    /\ lastDelivery.cam = 1 /\ lastDelivery.sess = 1
    /\ frameQueue[1] # <<>>

(***************************************************************************)
(* C18: with SDK calls that return, a stop() on an active camera           *)
(* terminates for every interleaving of the main thread with the producer  *)
(* and consumer threads, and when it has returned both threads have ended. *)
(***************************************************************************)
C18_StopTerminates ==
    \A c \in Cameras :
        InStop(c) ~> (StopReturned(c) /\ prodPc[c] = "off"
                                      /\ consumerPc[c] = "off")

(***************************************************************************)
(* C19: the frames of a camera that its consumer hands on are a            *)
(* subsequence of its complete frames in capture order: each frame handled *)
(* was captured after the one handled before it, over any number of        *)
(* stop/start cycles, so that no frame is reordered or handed on twice.    *)
(***************************************************************************)
Handles(c) == consumerPc[c] = "forward" /\ consumerPc'[c] # "forward"

C19_FramesInCaptureOrder ==
    [][ \A c \in Producers :
          Handles(c) =>
             /\ lastDelivery'.cam = c
             /\ lastDelivery'.size = consumerFrame[c].size
             /\ lastDelivery'.size[1] \in 1..MaxFrames
             /\ lastDelivery'.size[1] > lastDelivery.size[1]
             /\ \A i \in 1..Len(frameQueue[c]) :
                   frameQueue[c][i].size[1] > lastDelivery'.size[1] ]_vars

\* A frame captured before a stop() is forwarded after the next start(),
\* behind the frame forwarded before the stop.
C19_Witness ==
    /\ lastOp[1] = "start"
    /\ prodPc[1] = "run"
    /\ prodRun[1] = NoRun
    /\ consumerPc[1] = "forward"
    /\ consumerLocal[1] = 1
    /\ consumerFrame[1].size = <<2, 1>>
    /\ lastDelivery.sess = 1
    /\ lastDelivery.size = <<1, 1>>
    /\ frameQueue[1] # <<>>

(***************************************************************************)
(* C20: in the frame callback the frame handed to the consumer is a copy   *)
(* made before the SDK buffer is given back by camera.queue_frame; every   *)
(* call of the callback gives its buffer back exactly once, whatever the   *)
(* status of the frame and whether it was queued; and only frames whose    *)
(* status is Complete enter the queue.                                     *)
(***************************************************************************)
Count(seq, x) == Cardinality({i \in 1..Len(seq) : seq[i] = x})

Position(seq, x) == CHOOSE i \in 1..Len(seq) : seq[i] = x

CallbackSound(cb) ==
    /\ Count(cb.ops, "camera.queue_frame") = 1
    /\ "put_nowait" \in Range(cb.ops) =>
          /\ cb.status = "Complete"
          /\ Count(cb.ops, "deepcopy") = 1
          /\ Position(cb.ops, "deepcopy") < Position(cb.ops, "put_nowait")
          /\ Position(cb.ops, "deepcopy")
                < Position(cb.ops, "camera.queue_frame")

C20_BufferGivenBackOnce ==
    [][ /\ lastCallback' # NoCallback => CallbackSound(lastCallback')
        /\ \A c \in Cameras :
              Len(frameQueue'[c]) > Len(frameQueue[c]) =>
                 /\ lastCallback'.cam = c
                 /\ lastCallback'.status = "Complete"
                 /\ "put_nowait" \in Range(lastCallback'.ops) ]_vars

C20_Witness ==
    /\ lastCallback = [cam |-> 1, status |-> "Incomplete",
                       ops |-> <<"camera.queue_frame">>]
    /\ Len(frameQueue[1]) = 1
    /\ consumerFrame[1].cam = 1
    /\ lastDelivery.cam = 1

(***************************************************************************)
(* C21: captureToFile called when the image capture has no capture session *)
(* or no pending frame returns -1 without raising, writes no file, emits   *)
(* no imageSaved and leaves the id counter and the pending frame as they   *)
(* were.                                                                   *)
(***************************************************************************)
CaptureCalled == Idle /\ lastCapture' # lastCapture

C21_NothingToCapture ==
    [][ (CaptureCalled /\ (icSession = None \/ icImage = NoFrame)) =>
           /\ mainPc' = MainIdle
           /\ lastCapture'.ret = -1
           /\ lastCapture'.wrote = NoFrame
           /\ lastCapture'.signals = <<>>
           /\ icId' = icId
           /\ icImage' = icImage
           /\ icCapturing' = icCapturing ]_vars

C21_Witness ==
    /\ Idle
    /\ lastCapture.ret = -1
    /\ lastCapture.session = None
    /\ lastCapture.image # NoFrame
    /\ icImage = lastCapture.image
    /\ icId = 1

(***************************************************************************)
(* C22: a successful captureToFile writes a frame that was delivered and   *)
(* clears the pending frame, so that a second captureToFile, with no frame *)
(* delivered between the return of the first and the second call, returns  *)
(* -1.                                                                     *)
(***************************************************************************)
C22_SecondCaptureRejected ==
    [][ (/\ CaptureCalled
         /\ lastCapture.ret >= 0
         /\ lastCapture.quiet
         /\ lastCapture.delivered = icDelivered
         /\ icDlv = DlvIdle)
           => lastCapture'.ret = -1 ]_vars

(***************************************************************************)
(* C23: on a camera whose device is null, start() and stop() make no SDK   *)
(* call and start no thread, leave isActive() false, add nothing to the    *)
(* running cameras of the runner and emit no activeChanged.                *)
(***************************************************************************)
CameraCalled(c) ==
    /\ Idle
    /\ lastCamCall'.cam = c
    /\ <<lastOp, lastCamCall, camSignals, camThreadOps>>'
          # <<lastOp, lastCamCall, camSignals, camThreadOps>>

C23_NullDeviceNoOp ==
    [][ \A c \in Cameras :
          /\ (CameraCalled(c) /\ camDevice[c] = NullDevice) =>
                 /\ mainPc' = MainIdle
                 /\ camThreadOps' = <<>>
                 /\ camSignals' = <<>>
                 /\ ~camActive[c] /\ ~camActive'[c]
                 /\ runningCameras' = runningCameras
                 /\ UNCHANGED <<prodPc, prodQuit, prodRun, readyPending,
                                consumerPc, consQuit, consAlive>>
          /\ camDevice'[c] = NullDevice =>
                 /\ prodPc'[c] = "off"
                 /\ \A i \in 1..Len(runningCameras') :
                       runningCameras'[i] # c ]_vars

C23_Witness ==
    /\ Idle
    /\ camDevice[1] = NullDevice
    /\ devCall.device = NullDevice
    /\ ~devCall.wasRunning
    /\ prodRun[1].stopped
    /\ lastOp[1] = "start"
    /\ lastCamCall = [op |-> "start", cam |-> 1, active |-> FALSE,
                      running |-> <<>>]
    /\ camThreadOps = <<>>
    /\ ~camActive[1]

(***************************************************************************)
(* C24: after the camera change handler has processed a Missing event for  *)
(* a device, every camera still bound to that device reports isAvailable() *)
(* false.                                                                  *)
(***************************************************************************)
C24_MissingDeviceUnavailable ==
    (hpPc = "idle" /\ hpEvent.event = "Missing") =>
        \A c \in Cameras :
            camDevice[c] = hpEvent.camera => ~isAvailable(c)

(***************************************************************************)
(* C25: only the recorder's own record(), pause() and stop() change the    *)
(* recorder state or close its writer: every step that changes the state,  *)
(* the writer or the set of released writers is a step of the thread that  *)
(* is inside one of these three calls.                                     *)
(***************************************************************************)
RecorderChanged ==
    \/ recorderState' # recorderState
    \/ writer' # writer
    \/ released' # released

C25_OnlyOwnCallsChangeState ==
    [][ RecorderChanged =>
           /\ ctlPc # "idle"
           /\ ctlPc' # ctlPc
           /\ lastCall.op \in RecorderCalls
           /\ lastCall' = lastCall ]_vars

C25_Witness ==
    /\ Idle
    /\ recorderState = RecordingState
    /\ writer # None
    /\ writer \notin released
    /\ wlog.target = writer
    /\ devCall.cam = 1
    /\ devCall.wasRunning
    /\ camDevice[1] = "color"
    /\ camActive[1]
    /\ lastCall.op = "record"

(***************************************************************************)
(* C26: record() called in PausedState returns in RecordingState with the  *)
(* writer object and actualLocation() it found and without emitting        *)
(* actualLocationChanged, and a frame written after that, before any other *)
(* call on the recorder, goes to that same writer, which is still open.    *)
(***************************************************************************)
Resumed == lastCall.op = "record" /\ lastCall.state = PausedState

C26_ResumeKeepsWriter ==
    [][ /\ (Resumed /\ ctlPc # "idle" /\ ctlPc' = "idle") =>
              /\ recorderState' = RecordingState
              /\ writer' = lastCall.writer
              /\ writer' # None
              /\ writer' \notin released'
              /\ actualLocation' = lastCall.location
              /\ recSignals' = << <<"recorderStateChanged", RecordingState>> >>
        /\ (Resumed /\ ctlPc = "idle" /\ wlog' # wlog) =>
              /\ wlog'.target = lastCall.writer
              /\ wlog'.open ]_vars

C26_Witness ==
    /\ Resumed
    /\ ctlPc = "idle"
    /\ recorderState = RecordingState
    /\ dlvPc = "d_unlock"
    /\ wlog.target = writer
    /\ wlog.open
    /\ wlog.state = RecordingState
    /\ writer = lastCall.writer
    /\ actualLocation = lastCall.location
    /\ actualLocation # NoLocation
    /\ recSignals = << <<"recorderStateChanged", RecordingState>> >>

(***************************************************************************)
(* C27: a camera that is active has a running acquisition thread, and when *)
(* setCameraDevice has stopped the camera and is about to make the thread  *)
(* for the new device, the thread of the previous device has finished and, *)
(* if it had opened the camera, has stopped streaming.  As stated, for     *)
(* every reachable state:                                                  *)
(***************************************************************************)
AboutToSwap(c) ==
    /\ devCall.at = "stopping"
    /\ devCall.cam = c
    /\ mainPc.at = "idle"

PreviousThreadFinished(c) ==
    AboutToSwap(c) =>
        /\ prodPc[c] = "off"
        /\ prodRun[c].reached => prodRun[c].stopped

SetCameraDeviceReturns ==
    /\ devCall.at # "none"
    /\ devCall'.at = "none"

C28_DeviceSwitchKeepsActive ==
    [][ SetCameraDeviceReturns =>
          LET c == devCall.cam
              d == devCall.device
          IN  /\ (d \in Devices /\ ~isNull(d)) =>
                     camActive'[c] = devCall.wasRunning
              /\ (d \in Devices /\ isNull(d)) => ~camActive'[c]
              /\ d \in Devices => camDevice'[c] = d
              /\ camSession'[c] = devCall.session
              /\ consumerSession'[c] = devCall.session
              /\ devCall.session # None =>
                     sessCamera'[devCall.session] = c ]_vars

C28_Witness ==
    /\ Idle
    /\ devCall.cam = 1
    /\ devCall.wasRunning
    /\ devCall.device = "color"
    /\ devCall.session = 1
    /\ camDevice[1] = "color"
    /\ camActive[1]
    /\ camSession[1] = 1
    /\ sessCamera[1] = 1
    /\ lastOp[1] = "start"
    /\ camSignals = << <<"activeChanged", TRUE>> >>

(***************************************************************************)
(* C29: a refresh of the registry makes _videoInputs refer to a new list   *)
(* object and changes the contents of no list object that is referred to:  *)
(* the list a caller got from videoInputs() holds what it held when the    *)
(* caller got it, and what a caller gets, also between a camera event and  *)
(* the refresh it leads to, is the whole list of the last refresh.         *)
(***************************************************************************)
Refreshed == hpPc # "idle" /\ hpPc' = "idle" /\ hpEvent.event # "Unreachable"

C29_ListReplacedWhole ==
    [][ /\ listHeap'[inputsRef'] = videoInputs'
        /\ held'.ref # None => listHeap'[held'.ref] = held'.seen
        /\ Refreshed =>
              /\ inputsRef' # inputsRef
              /\ listHeap'[inputsRef'] = sdkCameras
              /\ held.ref # None => listHeap'[held.ref] = listHeap[held.ref]
        /\ (held' # held /\ held'.ref # None) =>
              held'.seen = videoInputs ]_vars

C29_Witness ==
    /\ held.ref # None
    /\ held.ref # inputsRef
    /\ held.seen = <<"mono", "color">>
    /\ listHeap[held.ref] = <<"mono", "color">>
    /\ videoInputs = <<"color">>
    /\ listHeap[inputsRef] = <<"color">>
    /\ hpPc = "idle"
    /\ hpEvent = [camera |-> "mono", event |-> "Missing"]

(***************************************************************************)
(* C30: when stopVimba() returns, every camera is inactive with both its   *)
(* threads ended, each camera that was active at the call got one          *)
(* activeChanged(False) and no other signal, and the list of running       *)
(* cameras is empty; and after stopVimba() has returned, runVimba leaves   *)
(* its event loop and unregisters the camera change handler.               *)
(***************************************************************************)
StopVimbaReturns == stopV.at = "loop" /\ stopV'.at = "returned"

StoppedBy(c) == {i \in 1..Len(stopV.log) : stopV.log[i][1] = c}

C30_AllStoppedAtReturn ==
    [][ StopVimbaReturns =>
          /\ runningCameras' = <<>>
          /\ \A c \in Cameras :
                /\ ~camActive'[c]
                /\ prodPc'[c] = "off"
                /\ consumerPc'[c] = "off"
                /\ c \in stopV.wasActive =>
                      /\ Cardinality(StoppedBy(c)) = 1
                      /\ \A i \in StoppedBy(c) :
                            stopV.log[i][2] = << <<"activeChanged", FALSE>> >> ]_vars

C30_StopVimbaEndsRun ==
    /\ C30_AllStoppedAtReturn
    /\ (stopV.at = "returned") ~> ~HandlerRegistered

(***************************************************************************)
(* C31: a frame given to ArraySink.setArray makes it emit imageChanged     *)
(* once, and videoSizeChanged once exactly if the size of the frame is not *)
(* the arraySize() the sink had; afterwards arraySize() is the size of the *)
(* frame and array() is the frame.                                         *)
(***************************************************************************)
SinkGiven(c) ==
    /\ Handles(c)
    /\ consumerLocal[c] # None
    /\ sessArraySink[consumerLocal[c]] # None

Emitted(signals, name) == Cardinality({i \in 1..Len(signals) : signals[i] = name})

C31_SinkSignals ==
    [][ \A c \in Producers :
          SinkGiven(c) =>
             /\ Emitted(lastDelivery'.signals, "imageChanged") = 1
             /\ Emitted(lastDelivery'.signals, "videoSizeChanged") =
                    (IF consumerFrame[c].size # sinkSize THEN 1 ELSE 0)
             /\ Len(lastDelivery'.signals) \in 1..2
             /\ sinkSize' = consumerFrame[c].size
             /\ sinkArray' = Pixels(consumerFrame[c]) ]_vars

C31_Witness ==
    /\ sinkSize = <<1280, 960>>
    /\ sinkArray.size = <<1280, 960>>
    /\ lastDelivery.signals = <<"imageChanged">>
    /\ lastDelivery.calls = <<"ArraySink.setArray">>
    /\ consumerPc[1] = "get"
    /\ frameQueue[1] # <<>>
    /\ frameQueue[1][1].size = <<640, 480>>

(***************************************************************************)
(* C32: the format cameraFormat() returns for a camera whose device is not *)
(* null has the frame rate, the pixel format and the resolution (Width x   *)
(* Height) read from the device and is not null; for a null device the     *)
(* format is null.                                                         *)
(***************************************************************************)
C32_FormatOfDevice ==
    lastFormat.cam # None =>
       IF lastFormat.device # NullDevice
       THEN /\ Format_frameRate(lastFormat.ret) = lastFormat.read.fps
            /\ Format_pixelFormat(lastFormat.ret) = lastFormat.read.pf
            /\ Format_resolution(lastFormat.ret) =
                  <<lastFormat.read.w, lastFormat.read.h>>
            /\ ~Format_isNull(lastFormat.ret)
       ELSE Format_isNull(lastFormat.ret)

\* What holds of the format: all but the resolution, which stays (-1, -1).
C32_FormatButResolution ==
    lastFormat.cam # None =>
       IF lastFormat.device # NullDevice
       THEN /\ Format_frameRate(lastFormat.ret) = lastFormat.read.fps
            /\ Format_pixelFormat(lastFormat.ret) = lastFormat.read.pf
            /\ Format_resolution(lastFormat.ret) = <<-1, -1>>
            /\ ~Format_isNull(lastFormat.ret)
       ELSE Format_isNull(lastFormat.ret)

(***************************************************************************)
(* C33: in the VideoRecorder of the example, every append_data of          *)
(* _setFrame is called on a writer: _writer is not None and was not        *)
(* closed, however _setFrame and stop() interleave.                        *)
(***************************************************************************)
C33_AppendToOpenWriter ==
    vrAppend.at = "called" => vrAppend.writer # None /\ vrAppend.open

(***************************************************************************)
(* C34: the handler of a Missing event takes a running camera bound to the *)
(* missing device out of _runningCameras and calls its stop(), and         *)
(* refreshes the registry only after that stop() has returned with the     *)
(* camera inactive; it changes no other camera.  The handler of a Detected *)
(* event, or of a Missing event of a device no running camera is bound to, *)
(* only refreshes the registry.                                            *)
(***************************************************************************)
InRunning(c) == \E i \in 1..Len(runningCameras) : runningCameras[i] = c

C36_FramesOfCurrentDevice ==
    [][ \A c \in Producers :
          (Handles(c) /\ consumerLocal[c] # None /\ devCall.at = "none") =>
             consumerFrame[c].size = SensorSize(camDevice[c]) ]_vars

(***************************************************************************)
(* C37: a record() called in StoppedState returns at once when the         *)
(* recorder has no session, the session has no camera, neither the         *)
(* configured nor the camera's frame rate is positive, neither the         *)
(* configured nor the camera's resolution is positive, or the camera's     *)
(* pixel format is None: the state stays StoppedState, no writer is made,  *)
(* actualLocation() is what it was and no signal is emitted.               *)
(***************************************************************************)
FailedPrecondition ==
    \/ recSession = None
    \/ sessCamera[recSession] = None
    \/ (cfgFrameRate <= 0 /\ frameRate(SessionDevice) <= 0)
    \/ /\ \E i \in 1..2 : cfgResolution[i] <= 0
       /\ \E i \in 1..2 : resolution(SessionDevice)[i] <= 0
    \/ pixelFormat(SessionDevice) = "None"

RecordCalled == ctlPc = "idle" /\ lastCall' = Called("record")

C37_FailedRecordChangesNothing ==
    [][ (RecordCalled /\ recorderState = StoppedState /\ FailedPrecondition)
           => /\ ctlPc' = "idle"
              /\ recorderState' = StoppedState
              /\ writer' = writer
              /\ writer' = None
              /\ lastWriterId' = lastWriterId
              /\ writerArgs' = writerArgs
              /\ lock' = lock
              /\ actualLocation' = actualLocation
              /\ recSignals' = <<>> ]_vars

\* A record() that returned at once after an earlier recording and a
\* change of the output location, the camera of the session having the null
\* device.
C37_Witness ==
    /\ ctlPc = "idle"
    /\ lastCall = [op |-> "record", state |-> StoppedState, writer |-> None,
                   location |-> ".mp4"]
    /\ recorderState = StoppedState
    /\ writer = None
    /\ actualLocation = ".mp4"
    /\ outputLocation = "a"
    /\ recSignals = <<>>
    /\ recSession # None
    /\ sessCamera[recSession] = 1
    /\ camDevice[1] = NullDevice
    /\ cfgFrameRate = 25
    /\ cfgResolution = <<640, 480>>

(***************************************************************************)
(* C38: whenever the mutex of the recorder is free, _writer is a writer    *)
(* (not None, and not released) exactly if the state is RecordingState or  *)
(* PausedState.  record() makes a writer only when there is none, and      *)
(* stop() releases the writer record() made, which was not released        *)
(* before, and has none left when it returns.                              *)
(***************************************************************************)
WriterMatchesState ==
    lock = "free" =>
       /\ writer # None <=> recorderState \in {RecordingState, PausedState}
       /\ writer \notin released

WriterReleased == ctlPc = "stop_release" /\ ctlPc' # "stop_release"

StopReturns ==
    /\ lastCall.op = "stop"
    /\ lastCall.state # StoppedState
    /\ ctlPc # "idle"
    /\ ctlPc' = "idle"

C38_OneWriterPerRecording ==
    /\ []WriterMatchesState
    /\ [][ /\ WriterOpens =>
                /\ writer = None
                /\ writer' # None
                /\ writer' \notin released'
                /\ released' \subseteq released
           /\ WriterReleased =>
                /\ writer # None
                /\ writer = lastWriterId
                /\ writer = lastCall.writer
                /\ writer \notin released
                /\ released' = released \cup {writer}
           /\ StopReturns =>
                /\ writer' = None
                /\ lastCall.writer \in released'
                /\ ~recError'
           /\ (~WriterOpens /\ ~WriterReleased) => released' = released
         ]_vars

\* A recording that was paused has been stopped after an earlier one: its
\* writer is released, as is the writer of the recording before it.
C38_Witness ==
    /\ lock = "free"
    /\ ctlPc = "idle"
    /\ recorderState = StoppedState
    /\ writer = None
    /\ lastCall.op = "stop"
    /\ lastCall.state = PausedState
    /\ lastCall.writer = 1
    /\ lastWriterId = 1
    /\ released = {1, 2}

(***************************************************************************)
(* C39: the first id is 0; a captureToFile that succeeds returns the id    *)
(* the image capture had at the call, emits imageSaved once, with that id, *)
(* and leaves the id one higher; a captureToFile that fails and every      *)
(* other step leave the id as it is.  So the ids returned are 0, 1, 2, ... *)
(* in the order of the successful calls.                                   *)
(***************************************************************************)
CaptureReturns == mainPc.at = "cap_unflag" /\ mainPc'.at = "idle"

C39_IdsCountSuccesses ==
    /\ icId = 0
    /\ [][ /\ icId' # icId =>
                /\ mainPc.at = "cap_write"
                /\ lastCapture.id = icId
                /\ icId' = icId + 1
           /\ CaptureReturns =>
                /\ lastCapture'.ret = lastCapture.id
                /\ lastCapture'.ret >= 0
                /\ icId' = lastCapture'.ret + 1
                /\ lastCapture'.signals =
                      << <<"imageSaved", lastCapture'.ret>> >>
           /\ (CaptureCalled /\ mainPc'.at = "idle") =>
                /\ lastCapture'.ret = -1
                /\ lastCapture'.signals = <<>>
                /\ icId' = icId
           /\ (CaptureCalled /\ mainPc'.at # "idle") =>
                /\ lastCapture'.id = icId
                /\ lastCapture'.signals = <<>>
         ]_vars

\* The third successful capture has returned.
C39_Witness ==
    /\ Idle
    /\ lastCapture.ret = 2
    /\ lastCapture.signals = << <<"imageSaved", 2>> >>
    /\ icId = 3

(***************************************************************************)
(* C40: a session that forwards a frame to an image capture or a recorder  *)
(* is the captureSession() of that object: an object that was given to the *)
(* first session and then to the second gets no more frames from the       *)
(* first.                                                                  *)
(***************************************************************************)
C40_FramesFromOwnSession ==
    [][ \A c \in Producers :
          (Handles(c) /\ consumerLocal[c] # None) =>
             /\ "VimbaImageCapture._setArray" \in Range(lastDelivery'.calls)
                   => icSession = consumerLocal[c]
             /\ "VimbaVideoRecorder._setArray" \in Range(lastDelivery'.calls)
                   => recSession = consumerLocal[c] ]_vars

=============================================================================
